---- MODULE Spec2Model ----
(***************************************************************************)
(* SSD1306 OLED driver (src/src/ssd1306.c): the framebuffer, the device    *)
(* state and the I2C transmissions each driver call issues.                *)
(*                                                                         *)
(* One action per public driver function.  Every action records the call  *)
(* (op, args), its return value (ret) and the I2C transmissions the call   *)
(* handed to HAL_I2C_Master_Transmit (bus), so that a property of one call *)
(* is a property of one step.                                              *)
(***************************************************************************)
EXTENDS Integers, Sequences, FiniteSets, TLC

(* ---- program constants (src/inc/ssd1306.h) ---- *)
SSD1306_WIDTH == 128
SSD1306_HEIGHT == 64
SSD1306_I2C_DATATMP_SIZE == 256
SSD1306_COLOR_BLACK == 0
SSD1306_COLOR_WHITE == 1
SSD1306_RIGHT_HORIZONTAL_SCROLL == 38
SSD1306_LEFT_HORIZONTAL_SCROLL == 39
SSD1306_VERTICAL_AND_RIGHT_HORIZONTAL_SCROLL == 41
SSD1306_VERTICAL_AND_LEFT_HORIZONTAL_SCROLL == 42
SSD1306_SET_VERTICAL_SCROLL_AREA == 163
SSD1306_DEACTIVATE_SCROLL == 46
SSD1306_ACTIVATE_SCROLL == 47
SSD1306_NORMALDISPLAY == 166
SSD1306_INVERTDISPLAY == 167
(* Used by the scroll functions; its #define is not in the headers at hand. *)
SSD1306_MAX_PAGE_NUM == 8

(* sizeof(SSD1306_Buffer) *)
BufferSize == (SSD1306_WIDTH * SSD1306_HEIGHT) \div 8

(* ---- uint8_t bit operations ---- *)
RECURSIVE Pow2(_)
Pow2(k) == IF k = 0 THEN 1 ELSE 2 * Pow2(k - 1)

Bit(b, k) == (b \div Pow2(k)) % 2

(* b |= 1 << k *)
OrBit(b, k) == IF Bit(b, k) = 1 THEN b ELSE b + Pow2(k)

(* b &= ~(1 << k) *)
AndNotBit(b, k) == IF Bit(b, k) = 1 THEN b - Pow2(k) ELSE b

(* (uint8_t) ~b : the operand is promoted to int, complemented, truncated *)
Not8(b) == (-b - 1) % 256

(* ---- state ---- *)
VARIABLES
    SSD1306_Buffer,   \* [0 .. BufferSize-1 -> 0..255]
    currentX,         \* SSD1306.currentX
    currentY,         \* SSD1306.currentY
    inverted,         \* SSD1306.inverted
    initialized,      \* SSD1306.initialized
    op,               \* the driver function called last
    args,             \* its arguments; for init, the answer of
                      \* HAL_I2C_IsDeviceReady (1 ready, 0 not)
    ret,              \* its return value
    bus,              \* the transmissions that call issued, in order; each is
                      \* the byte sequence given to HAL_I2C_Master_Transmit
    busError,         \* TRUE iff the HAL reported a failed transmission in that call
    snap,             \* after a toggleInvert: buffer and flag before that call,
                      \* and whether the call before it was a toggleInvert too
    draws             \* number of drawing-primitive calls made so far

vars == <<SSD1306_Buffer, currentX, currentY, inverted, initialized,
          op, args, ret, bus, busError, snap, draws>>

NoSnap == [valid |-> FALSE, buffer |-> <<>>, inverted |-> 0, second |-> FALSE]

(* ---- I2C communication functions ---- *)

(* SSD1306_I2C_Write: data_tmp = {reg, data}, two bytes transmitted. *)
SSD1306_I2C_Write(reg, data) == << <<reg, data>> >>

SSD1306_WRITECOMMAND(command) == SSD1306_I2C_Write(0, command)

(* SSD1306_I2C_WriteMulti with data = &buf[base]: nothing is sent when *)
(* count exceeds the staging buffer, else reg followed by count bytes.  *)
SSD1306_I2C_WriteMulti(reg, buf, base, count) ==
    IF count > SSD1306_I2C_DATATMP_SIZE
    THEN << >>
    ELSE << <<reg>> \o [i \in 1..count |-> buf[base + i - 1]] >>

(* ---- buffer and device operations, as functions of the state ---- *)

(* Mutant: the page offset computed with the panel height. *)
RECURSIVE UpdatePages_heightStride(_, _)
UpdatePages_heightStride(buf, m) ==
    IF m < 8
    THEN SSD1306_WRITECOMMAND(176 + m)
         \o SSD1306_WRITECOMMAND(0)
         \o SSD1306_WRITECOMMAND(16)
         \o SSD1306_I2C_WriteMulti(64, buf, SSD1306_HEIGHT * m, SSD1306_WIDTH)
         \o UpdatePages_heightStride(buf, m + 1)
    ELSE << >>

(* The loop of SSD1306_updateScreen from page m on. *)
RECURSIVE UpdatePages(_, _)
UpdatePages(buf, m) ==
    IF m < 8
    THEN SSD1306_WRITECOMMAND(176 + m)
         \o SSD1306_WRITECOMMAND(0)
         \o SSD1306_WRITECOMMAND(16)
         \o SSD1306_I2C_WriteMulti(64, buf, SSD1306_WIDTH * m, SSD1306_WIDTH)
         \o UpdatePages(buf, m + 1)
    ELSE << >>

(* Mutant: the initialisation check left out. *)
updateScreen_unchecked(buf, init) ==
    [ret |-> "LCD_OK", bus |-> UpdatePages(buf, 0)]

updateScreen(buf, init) ==
    IF init = 0
    THEN [ret |-> "NO_INIT", bus |-> << >>]
    ELSE [ret |-> "LCD_OK", bus |-> UpdatePages(buf, 0)]

(* Mutant: memset with the colour value instead of 0xFF. *)
fill_colorByte(buf, init, color) ==
    IF init = 0
    THEN [ret |-> "NO_INIT", buf |-> buf]
    ELSE IF color = SSD1306_COLOR_BLACK
         THEN [ret |-> "LCD_OK", buf |-> [i \in 0..(BufferSize - 1) |-> 0]]
    ELSE IF color = SSD1306_COLOR_WHITE
         THEN [ret |-> "LCD_OK", buf |-> [i \in 0..(BufferSize - 1) |-> 1]]
    ELSE [ret |-> "INVALID_PARAMS", buf |-> buf]

fill(buf, init, color) ==
    IF init = 0
    THEN [ret |-> "NO_INIT", buf |-> buf]
    ELSE IF color = SSD1306_COLOR_BLACK
         THEN [ret |-> "LCD_OK", buf |-> [i \in 0..(BufferSize - 1) |-> 0]]
    ELSE IF color = SSD1306_COLOR_WHITE
         THEN [ret |-> "LCD_OK", buf |-> [i \in 0..(BufferSize - 1) |-> 255]]
    ELSE [ret |-> "INVALID_PARAMS", buf |-> buf]

(* SSD1306_clear: fill(BLACK) then updateScreen, both behind the init check. *)
clear(buf, init) ==
    IF init = 0
    THEN [ret |-> "NO_INIT", buf |-> buf, bus |-> << >>]
    ELSE LET f == fill(buf, init, SSD1306_COLOR_BLACK)
             u == updateScreen(f.buf, init)
         IN  [ret |-> "LCD_OK", buf |-> f.buf, bus |-> u.bus]

(* Mutant: the loop stops one byte short of sizeof(SSD1306_Buffer). *)
toggleInvert_shortLoop(buf, inv, init) ==
    IF init = 0
    THEN [ret |-> "NO_INIT", buf |-> buf, inv |-> inv]
    ELSE [ret |-> "LCD_OK",
          buf |-> [i \in 0..(BufferSize - 1) |->
                     IF i < BufferSize - 1 THEN Not8(buf[i]) ELSE buf[i]],
          inv |-> IF inv = 0 THEN 1 ELSE 0]

toggleInvert(buf, inv, init) ==
    IF init = 0
    THEN [ret |-> "NO_INIT", buf |-> buf, inv |-> inv]
    ELSE [ret |-> "LCD_OK",
          buf |-> [i \in 0..(BufferSize - 1) |-> Not8(buf[i])],
          inv |-> IF inv = 0 THEN 1 ELSE 0]

(* Mutant: the inversion flag is not applied to the colour. *)
drawPixel_noInversion(buf, inv, x, y, color) ==
    IF x >= SSD1306_WIDTH \/ y >= SSD1306_HEIGHT
    THEN [ret |-> "INVALID_PARAMS", buf |-> buf]
    ELSE LET idx == x + (y \div 8) * SSD1306_WIDTH
         IN  IF color = SSD1306_COLOR_WHITE
             THEN [ret |-> "LCD_OK",
                   buf |-> [buf EXCEPT ![idx] = OrBit(@, y % 8)]]
             ELSE IF color = SSD1306_COLOR_BLACK
             THEN [ret |-> "LCD_OK",
                   buf |-> [buf EXCEPT ![idx] = AndNotBit(@, y % 8)]]
             ELSE [ret |-> "INVALID_PARAMS", buf |-> buf]

(* SSD1306_drawPixel; x, y are uint16_t. *)
drawPixel(buf, inv, x, y, color) ==
    IF x >= SSD1306_WIDTH \/ y >= SSD1306_HEIGHT
    THEN [ret |-> "INVALID_PARAMS", buf |-> buf]
    ELSE LET c == IF inv # 0 THEN (IF color = 0 THEN 1 ELSE 0) ELSE color
             idx == x + (y \div 8) * SSD1306_WIDTH
         IN  IF c = SSD1306_COLOR_WHITE
             THEN [ret |-> "LCD_OK",
                   buf |-> [buf EXCEPT ![idx] = OrBit(@, y % 8)]]
             ELSE IF c = SSD1306_COLOR_BLACK
             THEN [ret |-> "LCD_OK",
                   buf |-> [buf EXCEPT ![idx] = AndNotBit(@, y % 8)]]
             ELSE [ret |-> "INVALID_PARAMS", buf |-> buf]

(* ---- integer conversions ---- *)
(* Conversion of an int to uint16_t (argument passing, uint16_t arithmetic). *)
U16(v) == v % 65536

(* Conversion of an int to int16_t (two's complement, as the target does). *)
I16(v) == IF v % 65536 >= 32768 THEN (v % 65536) - 65536 ELSE v % 65536

(* ---- SSD1306_drawLine ---- *)
(* The loops below run their iterations in the order of the code; an       *)
(* iteration range is split in halves only to keep the evaluation shallow. *)

(* for (i = lo; i <= hi; i++) SSD1306_drawPixel(x, i, color): n rounds   *)
(* from the loop state s = [buf, i].                                      *)
RECURSIVE VLineIter(_, _, _, _, _, _)
VLineIter(s, inv, x, hi, color, n) ==
    IF n <= 0 \/ s.i > hi THEN s
    ELSE IF n = 1
    THEN [buf |-> drawPixel(s.buf, inv, U16(x), U16(s.i), color).buf,
          i |-> I16(s.i + 1)]
    ELSE LET s1 == VLineIter(s, inv, x, hi, color, n \div 2)
         IN  VLineIter(s1, inv, x, hi, color, n - n \div 2)

VLineLoop(buf, inv, x, lo, hi, color) ==
    VLineIter([buf |-> buf, i |-> lo], inv, x, hi, color, hi - lo + 1).buf

(* for (i = lo; i <= hi; i++) SSD1306_drawPixel(i, y, color) *)
RECURSIVE HLineIter(_, _, _, _, _, _)
HLineIter(s, inv, y, hi, color, n) ==
    IF n <= 0 \/ s.i > hi THEN s
    ELSE IF n = 1
    THEN [buf |-> drawPixel(s.buf, inv, U16(s.i), U16(y), color).buf,
          i |-> I16(s.i + 1)]
    ELSE LET s1 == HLineIter(s, inv, y, hi, color, n \div 2)
         IN  HLineIter(s1, inv, y, hi, color, n - n \div 2)

HLineLoop(buf, inv, y, lo, hi, color) ==
    HLineIter([buf |-> buf, i |-> lo], inv, y, hi, color, hi - lo + 1).buf

(* Mutant: a round that steps x does not step y as well. *)
LineStep_oneAxisPerRound(s, inv, g, color) ==
    IF s.done THEN s
    ELSE LET b1 == drawPixel(s.buf, inv, s.x0, s.y0, color).buf
             e2 == s.err
             stepX == e2 > -g.dx
             stepY == ~stepX /\ e2 < g.dy
             errA == IF stepX THEN I16(s.err - g.dy) ELSE s.err
         IN  IF s.x0 = g.x1 /\ s.y0 = g.y1
             THEN [s EXCEPT !.buf = b1, !.done = TRUE]
             ELSE [buf |-> b1,
                   x0 |-> IF stepX THEN U16(s.x0 + g.sx) ELSE s.x0,
                   y0 |-> IF stepY THEN U16(s.y0 + g.sy) ELSE s.y0,
                   err |-> IF stepY THEN I16(errA + g.dx) ELSE errA,
                   done |-> FALSE]

(* One iteration of the while (1) loop of the general case; s holds buf,   *)
(* x0, y0, err and whether the break was taken; g holds x1, y1, dx, dy,    *)
(* sx, sy.                                                                 *)
LineStep(s, inv, g, color) ==
    IF s.done THEN s
    ELSE LET b1 == drawPixel(s.buf, inv, s.x0, s.y0, color).buf
             e2 == s.err
             stepX == e2 > -g.dx
             stepY == e2 < g.dy
             errA == IF stepX THEN I16(s.err - g.dy) ELSE s.err
         IN  IF s.x0 = g.x1 /\ s.y0 = g.y1
             THEN [s EXCEPT !.buf = b1, !.done = TRUE]
             ELSE [buf |-> b1,
                   x0 |-> IF stepX THEN U16(s.x0 + g.sx) ELSE s.x0,
                   y0 |-> IF stepY THEN U16(s.y0 + g.sy) ELSE s.y0,
                   err |-> IF stepY THEN I16(errA + g.dx) ELSE errA,
                   done |-> FALSE]

(* n iterations of the loop (none once the break was taken). *)
RECURSIVE LineIter(_, _, _, _, _)
LineIter(s, inv, g, color, n) ==
    IF n = 0 \/ s.done THEN s
    ELSE IF n = 1 THEN LineStep(s, inv, g, color)
    ELSE LET s1 == LineIter(s, inv, g, color, n \div 2)
         IN  LineIter(s1, inv, g, color, n - n \div 2)

(* The while (1) loop: it leaves by its break within dx + dy + 1 rounds. *)
LineLoop(buf, inv, x0, y0, err, g, color) ==
    LineIter([buf |-> buf, x0 |-> x0, y0 |-> y0, err |-> err, done |-> FALSE],
             inv, g, color, g.dx + g.dy + 1).buf

(* Mutant: the loops of the axis-aligned cases stop before the last pixel. *)
drawLine_openEnd(buf, inv, px0, py0, px1, py1, color) ==
    LET x0 == IF px0 >= SSD1306_WIDTH THEN SSD1306_WIDTH - 1 ELSE px0
        x1 == IF px1 >= SSD1306_WIDTH THEN SSD1306_WIDTH - 1 ELSE px1
        y0 == IF py0 >= SSD1306_HEIGHT THEN SSD1306_HEIGHT - 1 ELSE py0
        y1 == IF py1 >= SSD1306_HEIGHT THEN SSD1306_HEIGHT - 1 ELSE py1
        dx == IF x0 < x1 THEN x1 - x0 ELSE x0 - x1
        dy == IF y0 < y1 THEN y1 - y0 ELSE y0 - y1
        sx == IF x0 < x1 THEN 1 ELSE -1
        sy == IF y0 < y1 THEN 1 ELSE -1
        err == (IF dx > dy THEN dx ELSE -dy) \div 2
        ya == IF y1 < y0 THEN y1 ELSE y0
        yb == IF y1 < y0 THEN y0 ELSE y1
        xa == IF x1 < x0 THEN x1 ELSE x0
        xb == IF x1 < x0 THEN x0 ELSE x1
    IN  IF dx = 0 THEN VLineLoop(buf, inv, xa, ya, yb - 1, color)
        ELSE IF dy = 0 THEN HLineLoop(buf, inv, ya, xa, xb - 1, color)
        ELSE LineLoop(buf, inv, x0, y0, err,
                      [x1 |-> x1, y1 |-> y1, dx |-> dx, dy |-> dy,
                       sx |-> sx, sy |-> sy], color)

(* SSD1306_drawLine(x0, y0, x1, y1, color), the arguments already converted *)
(* to uint16_t by the caller; the result is the buffer (it returns LCD_OK). *)
(* >> 1 of a negative int16_t is the arithmetic shift, i.e. floor division. *)
drawLine(buf, inv, px0, py0, px1, py1, color) ==
    LET x0 == IF px0 >= SSD1306_WIDTH THEN SSD1306_WIDTH - 1 ELSE px0
        x1 == IF px1 >= SSD1306_WIDTH THEN SSD1306_WIDTH - 1 ELSE px1
        y0 == IF py0 >= SSD1306_HEIGHT THEN SSD1306_HEIGHT - 1 ELSE py0
        y1 == IF py1 >= SSD1306_HEIGHT THEN SSD1306_HEIGHT - 1 ELSE py1
        dx == IF x0 < x1 THEN x1 - x0 ELSE x0 - x1
        dy == IF y0 < y1 THEN y1 - y0 ELSE y0 - y1
        sx == IF x0 < x1 THEN 1 ELSE -1
        sy == IF y0 < y1 THEN 1 ELSE -1
        err == (IF dx > dy THEN dx ELSE -dy) \div 2
        ya == IF y1 < y0 THEN y1 ELSE y0
        yb == IF y1 < y0 THEN y0 ELSE y1
        xa == IF x1 < x0 THEN x1 ELSE x0
        xb == IF x1 < x0 THEN x0 ELSE x1
    IN  IF dx = 0 THEN VLineLoop(buf, inv, xa, ya, yb, color)
        ELSE IF dy = 0 THEN HLineLoop(buf, inv, ya, xa, xb, color)
        ELSE LineLoop(buf, inv, x0, y0, err,
                      [x1 |-> x1, y1 |-> y1, dx |-> dx, dy |-> dy,
                       sx |-> sx, sy |-> sy], color)

(* ---- SSD1306_drawRectangle, SSD1306_drawFilledRectangle ---- *)

(* Mutant: the width and height checks left out. *)
drawRectangle_noClamp(buf, inv, x, y, pw, ph, color) ==
    IF x >= SSD1306_WIDTH \/ y >= SSD1306_HEIGHT
    THEN [ret |-> "INVALID_PARAMS", buf |-> buf]
    ELSE LET w == pw
             h == ph
             b1 == drawLine(buf, inv, x, y, U16(x + w), y, color)
             b2 == drawLine(b1, inv, x, U16(y + h), U16(x + w), U16(y + h), color)
             b3 == drawLine(b2, inv, x, y, x, U16(y + h), color)
             b4 == drawLine(b3, inv, U16(x + w), y, U16(x + w), U16(y + h), color)
         IN  [ret |-> "LCD_OK", buf |-> b4]

(* x + w and y + h are computed in int; the arguments of drawLine are     *)
(* converted to uint16_t.                                                 *)
drawRectangle(buf, inv, x, y, pw, ph, color) ==
    IF x >= SSD1306_WIDTH \/ y >= SSD1306_HEIGHT
    THEN [ret |-> "INVALID_PARAMS", buf |-> buf]
    ELSE LET w == IF x + pw >= SSD1306_WIDTH THEN U16(SSD1306_WIDTH - x) ELSE pw
             h == IF y + ph >= SSD1306_HEIGHT THEN U16(SSD1306_HEIGHT - y) ELSE ph
             b1 == drawLine(buf, inv, x, y, U16(x + w), y, color)
             b2 == drawLine(b1, inv, x, U16(y + h), U16(x + w), U16(y + h), color)
             b3 == drawLine(b2, inv, x, y, x, U16(y + h), color)
             b4 == drawLine(b3, inv, U16(x + w), y, U16(x + w), U16(y + h), color)
         IN  [ret |-> "LCD_OK", buf |-> b4]

(* for (uint8_t i = 0; i <= h; i++) drawLine(x, y + i, x + w, y + i):     *)
(* n rounds from the loop state s = [buf, i].                             *)
RECURSIVE FilledRectIter(_, _, _, _, _, _, _, _)
FilledRectIter(s, inv, x, y, w, h, color, n) ==
    IF n <= 0 \/ s.i > h THEN s
    ELSE IF n = 1
    THEN [buf |-> drawLine(s.buf, inv, x, U16(y + s.i), U16(x + w),
                           U16(y + s.i), color),
          i |-> (s.i + 1) % 256]
    ELSE LET s1 == FilledRectIter(s, inv, x, y, w, h, color, n \div 2)
         IN  FilledRectIter(s1, inv, x, y, w, h, color, n - n \div 2)

drawFilledRectangle(buf, inv, x, y, pw, ph, color) ==
    IF x >= SSD1306_WIDTH \/ y >= SSD1306_HEIGHT
    THEN [ret |-> "INVALID_PARAMS", buf |-> buf]
    ELSE LET w == IF x + pw >= SSD1306_WIDTH THEN U16(SSD1306_WIDTH - x) ELSE pw
             h == IF y + ph >= SSD1306_HEIGHT THEN U16(SSD1306_HEIGHT - y) ELSE ph
         IN  [ret |-> "LCD_OK",
              buf |-> FilledRectIter([buf |-> buf, i |-> 0], inv, x, y, w, h,
                                     color, h + 1).buf]

(* ---- SSD1306_drawTriangle, SSD1306_drawFilledTriangle ---- *)

drawTriangle(buf, inv, x1, y1, x2, y2, x3, y3, color) ==
    LET b1 == drawLine(buf, inv, x1, y1, x2, y2, color)
        b2 == drawLine(b1, inv, x2, y2, x3, y3, color)
        b3 == drawLine(b2, inv, x3, y3, x1, y1, color)
    IN  b3

(* #define ABS(x) ((x) > 0 ? (x) : -(x)) *)
ABS(x) == IF x > 0 THEN x ELSE -x

(* The int16_t locals drawFilledTriangle sets up before its loop. *)
FilledTriangleSetup(x1, y1, x2, y2) ==
    LET deltax == I16(ABS(x2 - x1))
        deltay == I16(ABS(y2 - y1))
        xinc == IF x2 >= x1 THEN 1 ELSE -1
        yinc == IF y2 >= y1 THEN 1 ELSE -1
    IN  IF deltax >= deltay
        THEN [xinc1 |-> 0, xinc2 |-> xinc, yinc1 |-> yinc, yinc2 |-> 0,
              den |-> deltax, num |-> deltax \div 2, numadd |-> deltay,
              numpixels |-> deltax]
        ELSE [xinc1 |-> xinc, xinc2 |-> 0, yinc1 |-> 0, yinc2 |-> yinc,
              den |-> deltay, num |-> deltay \div 2, numadd |-> deltax,
              numpixels |-> deltay]

(* Mutant: the walking point is not moved after the last but one line.    *)
FilledTriangleStep_shortWalk(s, inv, c, x3, y3, color) ==
    LET b1 == drawLine(s.buf, inv, U16(s.x), U16(s.y), x3, y3, color)
        n1 == I16(s.num + c.numadd)
        carry == n1 >= c.den
        stay == s.curpixel + 1 >= c.numpixels
    IN  [buf |-> b1,
         num |-> IF carry THEN I16(n1 - c.den) ELSE n1,
         x |-> IF stay THEN s.x
               ELSE I16(I16(s.x + (IF carry THEN c.xinc1 ELSE 0)) + c.xinc2),
         y |-> IF stay THEN s.y
               ELSE I16(I16(s.y + (IF carry THEN c.yinc1 ELSE 0)) + c.yinc2),
         curpixel |-> I16(s.curpixel + 1)]

(* One round of the loop: the line from the walking point (x, y) to        *)
(* (x3, y3), then the move of the walking point; c is the setup above.     *)
FilledTriangleStep(s, inv, c, x3, y3, color) ==
    LET b1 == drawLine(s.buf, inv, U16(s.x), U16(s.y), x3, y3, color)
        n1 == I16(s.num + c.numadd)
        carry == n1 >= c.den
    IN  [buf |-> b1,
         num |-> IF carry THEN I16(n1 - c.den) ELSE n1,
         x |-> I16(I16(s.x + (IF carry THEN c.xinc1 ELSE 0)) + c.xinc2),
         y |-> I16(I16(s.y + (IF carry THEN c.yinc1 ELSE 0)) + c.yinc2),
         curpixel |-> I16(s.curpixel + 1)]

(* for (curpixel = 0; curpixel <= numpixels; curpixel++): n rounds. *)
RECURSIVE FilledTriangleIter(_, _, _, _, _, _, _)
FilledTriangleIter(s, inv, c, x3, y3, color, n) ==
    IF n <= 0 \/ ~(s.curpixel <= c.numpixels) THEN s
    ELSE IF n = 1 THEN FilledTriangleStep(s, inv, c, x3, y3, color)
    ELSE LET s1 == FilledTriangleIter(s, inv, c, x3, y3, color, n \div 2)
         IN  FilledTriangleIter(s1, inv, c, x3, y3, color, n - n \div 2)

drawFilledTriangle(buf, inv, x1, y1, x2, y2, x3, y3, color) ==
    LET c == FilledTriangleSetup(x1, y1, x2, y2)
    IN  FilledTriangleIter([buf |-> buf, num |-> c.num, x |-> I16(x1),
                            y |-> I16(y1), curpixel |-> 0],
                           inv, c, x3, y3, color, c.numpixels + 1).buf

(* ---- SSD1306_drawCircle, SSD1306_drawFilledCircle ---- *)
(* x0, y0, r and the locals are int16_t; a sum such as x0 + x is computed  *)
(* in int and converted to the uint16_t parameter of drawPixel / drawLine; *)
(* a value stored into an int16_t local is reduced modulo 2^16.            *)

Plot(buf, inv, x, y, color) == drawPixel(buf, inv, U16(x), U16(y), color).buf

(* Mutant: the octant (x0 - y, y0 - x) is not drawn. *)
CirclePlot8_sevenOctants(buf, inv, x0, y0, x, y, color) ==
    LET b1 == Plot(buf, inv, x0 + x, y0 + y, color)
        b2 == Plot(b1, inv, x0 - x, y0 + y, color)
        b3 == Plot(b2, inv, x0 + x, y0 - y, color)
        b4 == Plot(b3, inv, x0 - x, y0 - y, color)
        b5 == Plot(b4, inv, x0 + y, y0 + x, color)
        b6 == Plot(b5, inv, x0 - y, y0 + x, color)
        b7 == Plot(b6, inv, x0 + y, y0 - x, color)
    IN  b7

(* The eight drawPixel calls of one round of drawCircle. *)
CirclePlot8(buf, inv, x0, y0, x, y, color) ==
    LET b1 == Plot(buf, inv, x0 + x, y0 + y, color)
        b2 == Plot(b1, inv, x0 - x, y0 + y, color)
        b3 == Plot(b2, inv, x0 + x, y0 - y, color)
        b4 == Plot(b3, inv, x0 - x, y0 - y, color)
        b5 == Plot(b4, inv, x0 + y, y0 + x, color)
        b6 == Plot(b5, inv, x0 - y, y0 + x, color)
        b7 == Plot(b6, inv, x0 + y, y0 - x, color)
        b8 == Plot(b7, inv, x0 - y, y0 - x, color)
    IN  b8

(* The four drawLine calls of one round of drawFilledCircle. *)
CircleLines4(buf, inv, x0, y0, x, y, color) ==
    LET b1 == drawLine(buf, inv, U16(x0 - x), U16(y0 + y),
                       U16(x0 + x), U16(y0 + y), color)
        b2 == drawLine(b1, inv, U16(x0 + x), U16(y0 - y),
                       U16(x0 - x), U16(y0 - y), color)
        b3 == drawLine(b2, inv, U16(x0 + y), U16(y0 + x),
                       U16(x0 - y), U16(y0 + x), color)
        b4 == drawLine(b3, inv, U16(x0 + y), U16(y0 - x),
                       U16(x0 - y), U16(y0 - x), color)
    IN  b4

(* The decision-variable update of one round: s holds f, ddF_x, ddF_y, x, y. *)
MidpointAdvance(s) ==
    LET dec == s.f >= 0
        y1 == IF dec THEN I16(s.y - 1) ELSE s.y
        ddy == IF dec THEN I16(s.ddF_y + 2) ELSE s.ddF_y
        f1 == IF dec THEN I16(s.f + ddy) ELSE s.f
        x1 == I16(s.x + 1)
        ddx == I16(s.ddF_x + 2)
    IN  [f |-> I16(f1 + ddx), ddF_x |-> ddx, ddF_y |-> ddy, x |-> x1, y |-> y1]

(* while (x < y) of drawCircle (filled = FALSE) and drawFilledCircle       *)
(* (filled = TRUE): n rounds from the loop state s = [buf, m].             *)
RECURSIVE CircleIter(_, _, _, _, _, _, _)
CircleIter(s, inv, x0, y0, color, filled, n) ==
    IF n <= 0 \/ ~(s.m.x < s.m.y) THEN s
    ELSE IF n = 1
    THEN LET m1 == MidpointAdvance(s.m)
         IN  [buf |-> IF filled
                      THEN CircleLines4(s.buf, inv, x0, y0, m1.x, m1.y, color)
                      ELSE CirclePlot8(s.buf, inv, x0, y0, m1.x, m1.y, color),
              m |-> m1]
    ELSE LET s1 == CircleIter(s, inv, x0, y0, color, filled, n \div 2)
         IN  CircleIter(s1, inv, x0, y0, color, filled, n - n \div 2)

(* The state before the loop; x grows by one per round up to y <= r, so   *)
(* the loop ends within r rounds.                                         *)
MidpointStart(r) ==
    [f |-> I16(1 - r), ddF_x |-> 1, ddF_y |-> I16(-2 * r), x |-> 0, y |-> r]

drawCircle(buf, inv, x0, y0, r, color) ==
    LET b1 == Plot(buf, inv, x0, y0 + r, color)
        b2 == Plot(b1, inv, x0, y0 - r, color)
        b3 == Plot(b2, inv, x0 + r, y0, color)
        b4 == Plot(b3, inv, x0 - r, y0, color)
    IN  CircleIter([buf |-> b4, m |-> MidpointStart(r)],
                   inv, x0, y0, color, FALSE, r).buf

drawFilledCircle(buf, inv, x0, y0, r, color) ==
    LET b1 == Plot(buf, inv, x0, y0 + r, color)
        b2 == Plot(b1, inv, x0, y0 - r, color)
        b3 == Plot(b2, inv, x0 + r, y0, color)
        b4 == Plot(b3, inv, x0 - r, y0, color)
        b5 == drawLine(b4, inv, U16(x0 - r), U16(y0), U16(x0 + r), U16(y0), color)
    IN  CircleIter([buf |-> b5, m |-> MidpointStart(r)],
                   inv, x0, y0, color, TRUE, r).buf

(* ---- SSD1306_drawBitmap ---- *)
(* bitmap is the byte array (bitmap[k] of the code is bitmap[k + 1] here); *)
(* byte is the uint8_t shift register, reloaded at every 8th column.       *)

(* Mutant: the shift register is never reloaded after column 0 of a row.   *)
BitmapByte_noReload(byte, bitmap, byteWidth, j, i) ==
    IF i # 0 THEN (byte * 2) % 256
    ELSE bitmap[j * byteWidth + i \div 8 + 1]

(* if (i & 7) byte <<= 1; else byte = bitmap[j * byteWidth + i / 8]; *)
BitmapByte(byte, bitmap, byteWidth, j, i) ==
    IF i % 8 # 0 THEN (byte * 2) % 256
    ELSE bitmap[j * byteWidth + i \div 8 + 1]

(* n rounds of the inner loop over i, from the state s = [buf, byte, i]. *)
RECURSIVE BitmapRowIter(_, _, _, _, _, _, _, _, _, _)
BitmapRowIter(s, inv, x, y, bitmap, byteWidth, j, w, color, n) ==
    IF n <= 0 \/ ~(s.i < w) THEN s
    ELSE IF n = 1
    THEN LET b == BitmapByte(s.byte, bitmap, byteWidth, j, s.i)
         IN  [buf |-> IF b \div 128 = 1
                      THEN Plot(s.buf, inv, x + s.i, y, color)
                      ELSE s.buf,
              byte |-> b,
              i |-> I16(s.i + 1)]
    ELSE LET s1 == BitmapRowIter(s, inv, x, y, bitmap, byteWidth, j, w, color,
                                 n \div 2)
         IN  BitmapRowIter(s1, inv, x, y, bitmap, byteWidth, j, w, color,
                           n - n \div 2)

(* n rounds of the outer loop over j, from the state s = [buf, byte, j, y]. *)
RECURSIVE BitmapIter(_, _, _, _, _, _, _, _, _)
BitmapIter(s, inv, x, bitmap, byteWidth, w, h, color, n) ==
    IF n <= 0 \/ ~(s.j < h) THEN s
    ELSE IF n = 1
    THEN LET row == BitmapRowIter([buf |-> s.buf, byte |-> s.byte, i |-> 0],
                                  inv, x, s.y, bitmap, byteWidth, s.j, w,
                                  color, w)
         IN  [buf |-> row.buf, byte |-> row.byte,
              j |-> I16(s.j + 1), y |-> I16(s.y + 1)]
    ELSE LET s1 == BitmapIter(s, inv, x, bitmap, byteWidth, w, h, color, n \div 2)
         IN  BitmapIter(s1, inv, x, bitmap, byteWidth, w, h, color, n - n \div 2)

drawBitmap(buf, inv, x, y, bitmap, w, h, color) ==
    LET byteWidth == I16((w + 7) \div 8)
    IN  BitmapIter([buf |-> buf, byte |-> 0, j |-> 0, y |-> y],
                   inv, x, bitmap, byteWidth, w, h, color, h).buf

(* ---- SSD1306_putc, SSD1306_puts ---- *)
(* A font is a FontDef_t: fontWidth, fontHeight and data, the table of     *)
(* uint16_t glyph rows (data[k] of the code is data[k + 1] here), whose    *)
(* first glyph is that of the character 32. A read outside the table is    *)
(* undefined; junk is the value such a read yields.                        *)

FontRead(font, idx, junk) ==
    IF idx >= 0 /\ idx < Len(font.data) THEN font.data[idx + 1] ELSE junk

NotColor(color) == IF color = 0 THEN 1 ELSE 0

(* Mutant: a clear glyph bit leaves the pixel alone. *)
PutcPixel_transparent(buf, inv, x, y, b, j, color) ==
    IF j <= 15 /\ Bit(b, 15 - j) = 1
    THEN Plot(buf, inv, x, y, color)
    ELSE buf

(* if ((b << j) & 0x8000) drawPixel(.., color); else drawPixel(.., !color); *)
PutcPixel(buf, inv, x, y, b, j, color) ==
    IF j <= 15 /\ Bit(b, 15 - j) = 1
    THEN Plot(buf, inv, x, y, color)
    ELSE Plot(buf, inv, x, y, NotColor(color))

(* n rounds of the loop over the uint8_t j, from the state s = [buf, j]. *)
RECURSIVE PutcColIter(_, _, _, _, _, _, _, _)
PutcColIter(s, inv, cx, y, b, font, color, n) ==
    IF n <= 0 \/ ~(s.j < font.fontWidth) THEN s
    ELSE IF n = 1
    THEN [buf |-> PutcPixel(s.buf, inv, cx + s.j, y, b, s.j, color),
          j |-> (s.j + 1) % 256]
    ELSE LET s1 == PutcColIter(s, inv, cx, y, b, font, color, n \div 2)
         IN  PutcColIter(s1, inv, cx, y, b, font, color, n - n \div 2)

(* n rounds of the loop over the uint8_t i, from the state s = [buf, i]. *)
RECURSIVE PutcRowIter(_, _, _, _, _, _, _, _, _)
PutcRowIter(s, inv, cx, cy, ch, font, color, junk, n) ==
    IF n <= 0 \/ ~(s.i < font.fontHeight) THEN s
    ELSE IF n = 1
    THEN LET b == FontRead(font, (ch - 32) * font.fontHeight + s.i, junk)
         IN  [buf |-> PutcColIter([buf |-> s.buf, j |-> 0], inv, cx, cy + s.i,
                                  b, font, color, font.fontWidth).buf,
              i |-> (s.i + 1) % 256]
    ELSE LET s1 == PutcRowIter(s, inv, cx, cy, ch, font, color, junk, n \div 2)
         IN  PutcRowIter(s1, inv, cx, cy, ch, font, color, junk, n - n \div 2)

(* Mutant: a glyph box that ends on the last column or row is accepted. *)
PutcNoSpace_lastColumnFits(cx, cy, font) ==
    \/ SSD1306_WIDTH < cx + font.fontWidth
    \/ SSD1306_HEIGHT < cy + font.fontHeight

(* The check for available space on the visible area. *)
PutcNoSpace(cx, cy, font) ==
    \/ SSD1306_WIDTH <= cx + font.fontWidth
    \/ SSD1306_HEIGHT <= cy + font.fontHeight

putc(buf, inv, cx, cy, ch, font, color, junk) ==
    IF PutcNoSpace(cx, cy, font)
    THEN [ret |-> "INVALID_PARAMS", buf |-> buf, currentX |-> cx]
    ELSE [ret |-> "LCD_OK",
          buf |-> PutcRowIter([buf |-> buf, i |-> 0], inv, cx, cy, ch, font,
                              color, junk, font.fontHeight).buf,
          currentX |-> U16(cx + font.fontWidth)]

(* Every character before the terminating 0 is handed to putc, whose      *)
(* result is not looked at; the result is LCD_OK.                          *)
RECURSIVE puts(_, _, _, _, _, _, _, _)
puts(buf, inv, cx, cy, str, font, color, junk) ==
    IF str = << >>
    THEN [ret |-> "LCD_OK", buf |-> buf, currentX |-> cx]
    ELSE LET r == putc(buf, inv, cx, cy, Head(str), font, color, junk)
         IN  puts(r.buf, inv, r.currentX, cy, Tail(str), font, color, junk)

(* The 28 bring-up commands of SSD1306_init, then DEACTIVATE_SCROLL. *)
InitCommands ==
    << 174, 32, 16, 176, 200, 0, 16, 64, 129, 255, 161, 166, 168, 63,
       164, 211, 0, 213, 240, 217, 34, 218, 18, 219, 32, 141, 20, 175,
       SSD1306_DEACTIVATE_SCROLL >>

RECURSIVE WriteCommands(_, _)
WriteCommands(cmds, k) ==
    IF k > Len(cmds) THEN << >>
    ELSE SSD1306_WRITECOMMAND(cmds[k]) \o WriteCommands(cmds, k + 1)

(* Mutant: the display is switched off before the device is probed. *)
init_commandBeforeProbe(buf, ready) ==
    IF ~ready
    THEN [ret |-> "I2C_ERROR", buf |-> buf, bus |-> SSD1306_WRITECOMMAND(174),
          initialized |-> 0]
    ELSE LET c == clear(buf, 0)
         IN  [ret |-> "LCD_OK", buf |-> c.buf,
              bus |-> WriteCommands(InitCommands, 1) \o c.bus,
              initialized |-> 1]

(* SSD1306_init: the flag is reset before the probe; after the commands  *)
(* SSD1306_clear runs with the flag still 0, and the flag is set last.   *)
init(buf, ready) ==
    IF ~ready
    THEN [ret |-> "I2C_ERROR", buf |-> buf, bus |-> << >>, initialized |-> 0]
    ELSE LET c == clear(buf, 0)
         IN  [ret |-> "LCD_OK", buf |-> c.buf,
              bus |-> WriteCommands(InitCommands, 1) \o c.bus,
              initialized |-> 1]

(* ---- the scroll functions ---- *)
(* start_page and end_page are uint8_t. *)

(* Mutant: the order of the two pages is not checked. *)
ScrollRejects_noOrderCheck(start_page, end_page) ==
    \/ start_page >= SSD1306_MAX_PAGE_NUM
    \/ end_page >= SSD1306_MAX_PAGE_NUM

(* The two parameter checks at the head of each scroll function. *)
ScrollRejects(start_page, end_page) ==
    \/ start_page >= SSD1306_MAX_PAGE_NUM
    \/ end_page >= SSD1306_MAX_PAGE_NUM
    \/ start_page > end_page

ScrollResult(start_page, end_page, cmds) ==
    IF ScrollRejects(start_page, end_page)
    THEN [ret |-> "INVALID_PARAMS", bus |-> << >>]
    ELSE [ret |-> "LCD_OK", bus |-> WriteCommands(cmds, 1)]

scrollRight(start_page, end_page) ==
    ScrollResult(start_page, end_page,
                 <<SSD1306_RIGHT_HORIZONTAL_SCROLL, 0, start_page, 0, end_page,
                   0, 255, SSD1306_ACTIVATE_SCROLL>>)

scrollLeft(start_page, end_page) ==
    ScrollResult(start_page, end_page,
                 <<SSD1306_LEFT_HORIZONTAL_SCROLL, 0, start_page, 0, end_page,
                   0, 255, SSD1306_ACTIVATE_SCROLL>>)

scrollDiagRight(start_page, end_page) ==
    ScrollResult(start_page, end_page,
                 <<SSD1306_SET_VERTICAL_SCROLL_AREA, 0, SSD1306_HEIGHT,
                   SSD1306_VERTICAL_AND_RIGHT_HORIZONTAL_SCROLL, 0, start_page,
                   0, end_page, 1, SSD1306_ACTIVATE_SCROLL>>)

scrollDiagLeft(start_page, end_page) ==
    ScrollResult(start_page, end_page,
                 <<SSD1306_SET_VERTICAL_SCROLL_AREA, 0, SSD1306_HEIGHT,
                   SSD1306_VERTICAL_AND_LEFT_HORIZONTAL_SCROLL, 0, start_page,
                   0, end_page, 1, SSD1306_ACTIVATE_SCROLL>>)

(* ---- inputs ---- *)
Colors == {SSD1306_COLOR_BLACK, SSD1306_COLOR_WHITE}
ColorInputs == {0, 1, 2}
PixelInputs == { <<0, 0>>, <<5, 9>>, <<127, 63>>, <<128, 9>>, <<5, 64>> }
CursorInputs == { <<0, 0>>, <<10, 20>>, <<128, 0>>, <<0, 64>> }
PageInputs ==
    { <<0, 7>>, <<3, 2>>, <<0, 8>>, <<8, 8>>, <<2, 2>>, <<1, 5>>, <<200, 3>> }

(* ---- initial state: the zero-initialised statics ---- *)
Init ==
    /\ SSD1306_Buffer = [i \in 0..(BufferSize - 1) |-> 0]
    /\ currentX = 0
    /\ currentY = 0
    /\ inverted = 0
    /\ initialized = 0
    /\ op = "none"
    /\ args = << >>
    /\ ret = "none"
    /\ bus = << >>
    /\ busError = FALSE
    /\ snap = NoSnap
    /\ draws = 0

(* How many drawing-primitive calls one behaviour makes. *)
MaxDraws == 1

(* What every call records. *)
Call(name, a, r, b, e) ==
    /\ op' = name
    /\ args' = a
    /\ ret' = r
    /\ bus' = b
    /\ busError' = (e /\ b # << >>)
    /\ UNCHANGED draws

(* ---- actions: the public functions ---- *)
(* A rendering call that is counted: a run holds at most MaxDraws. *)
CountedCall(name, a, r, b, e) ==
    /\ draws < MaxDraws
    /\ op' = name
    /\ args' = a
    /\ ret' = r
    /\ bus' = b
    /\ busError' = (e /\ b # << >>)
    /\ draws' = draws + 1

CallAs(counted, name, a, r, b, e) ==
    IF counted THEN CountedCall(name, a, r, b, e) ELSE Call(name, a, r, b, e)

SSD1306_init ==
    \E ready \in BOOLEAN, e \in BOOLEAN :
        LET r == init(SSD1306_Buffer, ready)
        IN  /\ Call("init", <<IF ready THEN 1 ELSE 0>>, r.ret, r.bus, e)
            /\ SSD1306_Buffer' = r.buf
            /\ currentX' = 0
            /\ currentY' = 0
            /\ initialized' = r.initialized
            /\ snap' = NoSnap
            /\ UNCHANGED inverted

SSD1306_clear ==
    \E e \in BOOLEAN :
        LET r == clear(SSD1306_Buffer, initialized)
        IN  /\ Call("clear", << >>, r.ret, r.bus, e)
            /\ SSD1306_Buffer' = r.buf
            /\ snap' = NoSnap
            /\ UNCHANGED <<currentX, currentY, inverted, initialized>>

SSD1306_invertDisplay ==
    \E is_inverted \in {0, 1}, e \in BOOLEAN :
        /\ IF initialized = 0
           THEN Call("invertDisplay", <<is_inverted>>, "NO_INIT", << >>, e)
           ELSE Call("invertDisplay", <<is_inverted>>, "LCD_OK",
                     SSD1306_WRITECOMMAND(IF is_inverted # 0
                                          THEN SSD1306_INVERTDISPLAY
                                          ELSE SSD1306_NORMALDISPLAY), e)
        /\ snap' = NoSnap
        /\ UNCHANGED <<SSD1306_Buffer, currentX, currentY, inverted, initialized>>

(* Mutant: a failed transmission marks the device uninitialised. *)
SSD1306_updateScreen_resetsOnError ==
    \E e \in BOOLEAN :
        LET r == updateScreen(SSD1306_Buffer, initialized)
        IN  /\ Call("updateScreen", << >>, r.ret, r.bus, e)
            /\ initialized' = IF e /\ r.bus # << >> THEN 0 ELSE initialized
            /\ snap' = NoSnap
            /\ UNCHANGED <<SSD1306_Buffer, currentX, currentY, inverted>>

SSD1306_updateScreen ==
    \E e \in BOOLEAN :
        LET r == updateScreen(SSD1306_Buffer, initialized)
        IN  /\ Call("updateScreen", << >>, r.ret, r.bus, e)
            /\ snap' = NoSnap
            /\ UNCHANGED <<SSD1306_Buffer, currentX, currentY, inverted, initialized>>

ToggleInvertWith(counted) ==
    LET r == toggleInvert(SSD1306_Buffer, inverted, initialized)
    IN  /\ CallAs(counted, "toggleInvert", << >>, r.ret, << >>, FALSE)
        /\ SSD1306_Buffer' = r.buf
        /\ inverted' = r.inv
        /\ snap' = IF r.ret = "LCD_OK"
                   THEN [valid |-> TRUE, buffer |-> SSD1306_Buffer,
                         inverted |-> inverted, second |-> snap.valid]
                   ELSE NoSnap
        /\ UNCHANGED <<currentX, currentY, initialized>>

SSD1306_toggleInvert == ToggleInvertWith(FALSE)

ScrollCall(name, p, r, e) ==
    /\ Call(name, p, r.ret, r.bus, e)
    /\ snap' = NoSnap
    /\ UNCHANGED <<SSD1306_Buffer, currentX, currentY, inverted, initialized>>

SSD1306_scrollRight ==
    \E p \in PageInputs, e \in BOOLEAN :
        ScrollCall("scrollRight", p, scrollRight(p[1], p[2]), e)

SSD1306_scrollLeft ==
    \E p \in PageInputs, e \in BOOLEAN :
        ScrollCall("scrollLeft", p, scrollLeft(p[1], p[2]), e)

SSD1306_scrollDiagRight ==
    \E p \in PageInputs, e \in BOOLEAN :
        ScrollCall("scrollDiagRight", p, scrollDiagRight(p[1], p[2]), e)

SSD1306_scrollDiagLeft ==
    \E p \in PageInputs, e \in BOOLEAN :
        ScrollCall("scrollDiagLeft", p, scrollDiagLeft(p[1], p[2]), e)

SSD1306_stopScroll ==
    \E e \in BOOLEAN :
        /\ Call("stopScroll", << >>, "LCD_OK",
                SSD1306_WRITECOMMAND(SSD1306_DEACTIVATE_SCROLL), e)
        /\ snap' = NoSnap
        /\ UNCHANGED <<SSD1306_Buffer, currentX, currentY, inverted, initialized>>

FillWith(counted) ==
    \E color \in ColorInputs :
        LET r == fill(SSD1306_Buffer, initialized, color)
        IN  /\ CallAs(counted, "fill", <<color>>, r.ret, << >>, FALSE)
            /\ SSD1306_Buffer' = r.buf
            /\ snap' = NoSnap
            /\ UNCHANGED <<currentX, currentY, inverted, initialized>>

SSD1306_fill == FillWith(FALSE)

DrawPixelWith(P, counted) ==
    \E p \in P, color \in ColorInputs :
        LET r == drawPixel(SSD1306_Buffer, inverted, p[1], p[2], color)
        IN  /\ CallAs(counted, "drawPixel", <<p[1], p[2], color>>, r.ret, << >>, FALSE)
            /\ SSD1306_Buffer' = r.buf
            /\ snap' = NoSnap
            /\ UNCHANGED <<currentX, currentY, inverted, initialized>>

SSD1306_drawPixel == DrawPixelWith(PixelInputs, FALSE)

GotoXYWith(P, counted) ==
    \E p \in P :
        /\ IF p[1] >= SSD1306_WIDTH \/ p[2] >= SSD1306_HEIGHT
           THEN /\ CallAs(counted, "gotoXY", p, "INVALID_PARAMS", << >>, FALSE)
                /\ UNCHANGED <<currentX, currentY>>
           ELSE /\ CallAs(counted, "gotoXY", p, "LCD_OK", << >>, FALSE)
                /\ currentX' = p[1]
                /\ currentY' = p[2]
        /\ snap' = NoSnap
        /\ UNCHANGED <<SSD1306_Buffer, inverted, initialized>>

gotoXY(P) == GotoXYWith(P, FALSE)

SSD1306_gotoXY == gotoXY(CursorInputs)

SSD1306_lcdOn ==
    \E e \in BOOLEAN :
        /\ Call("lcdOn", << >>, "LCD_OK", WriteCommands(<<141, 20, 175>>, 1), e)
        /\ snap' = NoSnap
        /\ UNCHANGED <<SSD1306_Buffer, currentX, currentY, inverted, initialized>>

SSD1306_lcdOff ==
    \E e \in BOOLEAN :
        /\ Call("lcdOff", << >>, "LCD_OK", WriteCommands(<<141, 16, 174>>, 1), e)
        /\ snap' = NoSnap
        /\ UNCHANGED <<SSD1306_Buffer, currentX, currentY, inverted, initialized>>

Next ==
    \/ SSD1306_init
    \/ SSD1306_clear
    \/ SSD1306_invertDisplay
    \/ SSD1306_updateScreen
    \/ SSD1306_toggleInvert
    \/ SSD1306_scrollRight
    \/ SSD1306_stopScroll
    \/ SSD1306_fill
    \/ SSD1306_drawPixel
    \/ SSD1306_gotoXY
    \/ SSD1306_lcdOn
    \/ SSD1306_lcdOff

Spec == Init /\ [][Next]_vars

(* ================= drawing primitives ================= *)

(* Mutant: a drawing primitive that pushes a display-on command itself. *)
DrawCall_onBus(name, a, r) ==
    /\ draws < MaxDraws
    /\ op' = name
    /\ args' = a
    /\ ret' = r
    /\ bus' = SSD1306_WRITECOMMAND(175)
    /\ busError' = FALSE
    /\ snap' = NoSnap
    /\ draws' = draws + 1

(* What a drawing-primitive call records: it transmits nothing. *)
DrawCall(name, a, r) ==
    /\ draws < MaxDraws
    /\ op' = name
    /\ args' = a
    /\ ret' = r
    /\ bus' = << >>
    /\ busError' = FALSE
    /\ snap' = NoSnap
    /\ draws' = draws + 1

(* The calls that prepare the device before the primitives are drawn. *)
Setup ==
    /\ draws = 0
    /\ \/ SSD1306_init
       \/ SSD1306_toggleInvert
       \/ SSD1306_fill

LineInputs ==
    { <<0, 0, 10, 0>>, <<10, 0, 0, 0>>, <<100, 63, 127, 63>>,
      <<5, 3, 5, 20>>, <<5, 20, 5, 3>>, <<7, 7, 7, 7>>,
      <<0, 0, 10, 5>>, <<10, 5, 0, 0>>, <<3, 60, 0, 2>>,
      <<120, 10, 200, 10>>, <<5, 60, 5, 70>>, <<65535, 0, 0, 65535>> }

DrawLineFrom(P) ==
    \E l \in P, color \in Colors :
        /\ DrawCall("drawLine", l \o <<color>>, "LCD_OK")
        /\ SSD1306_Buffer' = drawLine(SSD1306_Buffer, inverted,
                                      l[1], l[2], l[3], l[4], color)
        /\ UNCHANGED <<currentX, currentY, inverted, initialized>>

SSD1306_drawLine == DrawLineFrom(LineInputs)

NextLine == Setup \/ SSD1306_drawLine

(* Lines between the points of a grid in and beyond the panel, in every    *)
(* direction, shallow and steep.                                           *)
LineSweepInputs ==
    { <<a, b, c, d>> : a \in {0, 37, 200}, b \in {0, 70},
                       c \in {0, 37, 200}, d \in {0, 11, 70} }

SSD1306_drawLine_sweep == DrawLineFrom(LineSweepInputs)

SpecLineSweep == Init /\ [][SSD1306_drawLine_sweep]_vars

SpecLine == Init /\ [][NextLine]_vars

RectInputs ==
    { <<0, 0, 10, 5>>, <<120, 60, 20, 10>>, <<5, 5, 0, 0>>,
      <<127, 63, 65535, 65535>>, <<100, 10, 27, 3>>, <<100, 10, 28, 3>>,
      <<3, 3, 0, 7>>, <<2, 50, 4, 13>>, <<128, 0, 1, 1>>, <<0, 64, 1, 1>> }

DrawRectangleFrom(P) ==
    \E q \in P, color \in Colors :
        LET r == drawRectangle(SSD1306_Buffer, inverted,
                               q[1], q[2], q[3], q[4], color)
        IN  /\ DrawCall("drawRectangle", q \o <<color>>, r.ret)
            /\ SSD1306_Buffer' = r.buf
            /\ UNCHANGED <<currentX, currentY, inverted, initialized>>

SSD1306_drawRectangle == DrawRectangleFrom(RectInputs)

DrawFilledRectangleFrom(P) ==
    \E q \in P, color \in Colors :
        LET r == drawFilledRectangle(SSD1306_Buffer, inverted,
                                     q[1], q[2], q[3], q[4], color)
        IN  /\ DrawCall("drawFilledRectangle", q \o <<color>>, r.ret)
            /\ SSD1306_Buffer' = r.buf
            /\ UNCHANGED <<currentX, currentY, inverted, initialized>>

SSD1306_drawFilledRectangle == DrawFilledRectangleFrom(RectInputs)

NextRect == Setup \/ SSD1306_drawRectangle \/ SSD1306_drawFilledRectangle

SpecRect == Init /\ [][NextRect]_vars

CircleInputs ==
    { <<20, 20, 5>>, <<0, 0, 3>>, <<-3, 10, 6>>, <<64, 70, 10>>,
      <<127, 63, 0>>, <<126, 32, 4>>, <<10, 10, 100>>, <<60, 30, 40>>,
      <<-100, 10, 110>> }

(* A centre and radius whose differences x0 - y fall below -65408, where   *)
(* the conversion to uint16_t lands inside the panel again. The loop runs  *)
(* some 23000 rounds, so it is applied as a first drawing call only.       *)
WideCircleInputs == { <<-32768, 10, 32767>> }

FilledCircleInputs ==
    { <<20, 20, 5>>, <<2, 10, 5>>, <<64, 2, 4>>, <<125, 32, 6>>,
      <<60, 61, 3>>, <<40, 30, 0>> }

DrawCircleFrom(P) ==
    \E q \in P, color \in Colors :
        /\ DrawCall("drawCircle", q \o <<color>>, "LCD_OK")
        /\ SSD1306_Buffer' = drawCircle(SSD1306_Buffer, inverted,
                                        q[1], q[2], q[3], color)
        /\ UNCHANGED <<currentX, currentY, inverted, initialized>>

SSD1306_drawCircle == DrawCircleFrom(CircleInputs \cup (IF draws = 0 THEN WideCircleInputs ELSE {}))

DrawFilledCircleFrom(P) ==
    \E q \in P, color \in Colors :
        /\ DrawCall("drawFilledCircle", q \o <<color>>, "LCD_OK")
        /\ SSD1306_Buffer' = drawFilledCircle(SSD1306_Buffer, inverted,
                                              q[1], q[2], q[3], color)
        /\ UNCHANGED <<currentX, currentY, inverted, initialized>>

SSD1306_drawFilledCircle == DrawFilledCircleFrom(FilledCircleInputs)

NextCircle == Setup \/ SSD1306_drawCircle

SpecCircle == Init /\ [][NextCircle]_vars

NextFilledCircle == Setup \/ SSD1306_drawFilledCircle

SpecFilledCircle == Init /\ [][NextFilledCircle]_vars

(* Bitmaps, each with the width and height it is drawn with: all-ON 8 x 2, *)
(* a 10 x 3 pattern whose padding bits are partly set, a 17 x 2 pattern,   *)
(* and an empty one.                                                       *)
Bitmaps ==
    { [bytes |-> <<255, 255>>, w |-> 8, h |-> 2],
      [bytes |-> <<165, 255, 60, 64, 255, 128>>, w |-> 10, h |-> 3],
      [bytes |-> <<129, 24, 128, 255, 0, 127>>, w |-> 17, h |-> 2],
      [bytes |-> <<255>>, w |-> 0, h |-> 1] }

BitmapOrigins ==
    { <<10, 10>>, <<5, 7>>, <<122, 62>>, <<-3, -1>>, <<128, 0>>, <<0, 300>> }

DrawBitmapFrom(O, M) ==
    \E o \in O, m \in M, color \in Colors :
        /\ DrawCall("drawBitmap", <<o[1], o[2], m.bytes, m.w, m.h, color>>, "LCD_OK")
        /\ SSD1306_Buffer' = drawBitmap(SSD1306_Buffer, inverted, o[1], o[2],
                                        m.bytes, m.w, m.h, color)
        /\ UNCHANGED <<currentX, currentY, inverted, initialized>>

SSD1306_drawBitmap == DrawBitmapFrom(BitmapOrigins, Bitmaps)

NextBitmap == Setup \/ SSD1306_drawBitmap

SpecBitmap == Init /\ [][NextBitmap]_vars

(* Glyph rows of a font table of n rows: a fixed pattern that also sets    *)
(* bits to the right of the glyph width.                                   *)
GlyphTable(n) == [k \in 1..n |-> (k * 25173 + 13849) % 65536]

(* Fonts of the sizes of FontDef_7x10 and FontDef_16x26, each with the     *)
(* glyphs of the characters 32, 33 and 34.                                 *)
FontInputs ==
    { [fontWidth |-> 7, fontHeight |-> 10, data |-> GlyphTable(3 * 10)],
      [fontWidth |-> 16, fontHeight |-> 26, data |-> GlyphTable(3 * 26)] }

HasGlyph(font, ch) ==
    ch >= 32 /\ (ch - 32 + 1) * font.fontHeight <= Len(font.data)

CharInputs == { 10, 33, 34, 65 }
StringInputs == { << >>, <<33, 34>>, <<33, 34, 32, 33>>, <<34, 10>> }
JunkInputs == { 0, 43690 }

TextCursorInputs ==
    { <<121, 0>>, <<120, 53>>, <<0, 54>>, <<100, 30>>, <<112, 10>>,
      <<111, 37>>, <<125, 60>> }

(* Before the first text call: the device is brought up, the display is   *)
(* inverted, the cursor is placed.                                        *)
TextSetup ==
    /\ draws = 0
    /\ \/ SSD1306_init
       \/ SSD1306_toggleInvert
       \/ gotoXY(TextCursorInputs)

PutcFrom(Ch, F) ==
    \E ch \in Ch, font \in F, color \in Colors :
        \E junk \in IF HasGlyph(font, ch) THEN {0} ELSE JunkInputs :
            LET r == putc(SSD1306_Buffer, inverted, currentX, currentY,
                          ch, font, color, junk)
            IN  /\ DrawCall("putc", <<ch, font, color, junk>>, r.ret)
                /\ SSD1306_Buffer' = r.buf
                /\ currentX' = r.currentX
                /\ UNCHANGED <<currentY, inverted, initialized>>

SSD1306_putc == PutcFrom(CharInputs, FontInputs)

PutsFrom(S, F) ==
    \E str \in S, font \in F, color \in Colors :
        \E junk \in IF \A k \in 1..Len(str) : HasGlyph(font, str[k])
                    THEN {0} ELSE JunkInputs :
            LET r == puts(SSD1306_Buffer, inverted, currentX, currentY,
                          str, font, color, junk)
            IN  /\ DrawCall("puts", <<str, font, color, junk>>, r.ret)
                /\ SSD1306_Buffer' = r.buf
                /\ currentX' = r.currentX
                /\ UNCHANGED <<currentY, inverted, initialized>>

SSD1306_puts == PutsFrom(StringInputs, FontInputs)

NextPutc == TextSetup \/ SSD1306_putc

SpecPutc == Init /\ [][NextPutc]_vars

NextPuts == TextSetup \/ SSD1306_puts

SpecPuts == Init /\ [][NextPuts]_vars

(* ---- the scroll functions after any bring-up ---- *)
NextScroll ==
    \/ Setup
    \/ SSD1306_scrollRight
    \/ SSD1306_scrollLeft
    \/ SSD1306_scrollDiagRight
    \/ SSD1306_scrollDiagLeft

SpecScroll == Init /\ [][NextScroll]_vars

(* Before the first call of a costly primitive: the device is brought up   *)
(* and the display is inverted.                                            *)
LightSetup ==
    /\ draws = 0
    /\ \/ SSD1306_init
       \/ SSD1306_toggleInvert

(* Vertices p1, p2, p3 as <<x1, y1, x2, y2, x3, y3>>: p1 -> p2 shallow and *)
(* steep, in each direction, degenerate, on the panel edge, and one with   *)
(* vertices beyond the panel.                                              *)
TriangleInputs ==
    { <<10, 10, 30, 15, 20, 40>>, <<0, 0, 5, 0, 0, 5>>, <<7, 9, 7, 9, 12, 3>>,
      <<127, 63, 100, 63, 110, 40>>, <<50, 5, 52, 40, 10, 20>>,
      <<40, 40, 20, 30, 60, 10>>, <<3, 30, 9, 24, 3, 24>>,
      <<120, 60, 135, 62, 100, 70>> }

DrawTriangleFrom(P) ==
    \E q \in P, color \in Colors :
        /\ DrawCall("drawTriangle", q \o <<color>>, "LCD_OK")
        /\ SSD1306_Buffer' = drawTriangle(SSD1306_Buffer, inverted, q[1], q[2],
                                          q[3], q[4], q[5], q[6], color)
        /\ UNCHANGED <<currentX, currentY, inverted, initialized>>

SSD1306_drawTriangle == DrawTriangleFrom(TriangleInputs)

DrawFilledTriangleFrom(P) ==
    \E q \in P, color \in Colors :
        /\ DrawCall("drawFilledTriangle", q \o <<color>>, "LCD_OK")
        /\ SSD1306_Buffer' = drawFilledTriangle(SSD1306_Buffer, inverted, q[1],
                                                q[2], q[3], q[4], q[5], q[6],
                                                color)
        /\ UNCHANGED <<currentX, currentY, inverted, initialized>>

SSD1306_drawFilledTriangle == DrawFilledTriangleFrom(TriangleInputs)

NextTriangle == LightSetup \/ SSD1306_drawTriangle \/ SSD1306_drawFilledTriangle

SpecTriangle == Init /\ [][NextTriangle]_vars

(* ------------------------------------------------------------------ *)
(* Every Rendering Engine operation in one specification.  Each        *)
(* rendering call is counted, so a run holds at most MaxDraws of them, *)
(* in any order and on any buffer an earlier call left; init and       *)
(* updateScreen surround them as a caller would.                       *)
(* ------------------------------------------------------------------ *)
RenderPixels == { <<5, 9>>, <<128, 9>> }
RenderCursors == { <<120, 30>>, <<121, 54>>, <<128, 0>>, <<0, 64>> }
RenderLines == { <<0, 0, 6, 3>>, <<5, 3, 5, 9>> }
RenderRects == { <<2, 50, 4, 13>> }
RenderTriangles == { <<0, 0, 5, 0, 0, 5>> }
RenderCircles == { <<3, 3, 2>> }
RenderBitmaps == { [bytes |-> <<165, 255>>, w |-> 8, h |-> 2] }
RenderOrigins == { <<122, 62>> }
RenderFonts == { f \in FontInputs : f.fontWidth = 7 }
RenderChars == { 10, 33 }
RenderStrings == { <<33, 34>> }

RenderOps ==
    { "fill", "drawPixel", "drawLine", "drawRectangle", "drawFilledRectangle",
      "drawTriangle", "drawFilledTriangle", "drawCircle", "drawFilledCircle",
      "drawBitmap", "putc", "puts", "gotoXY", "toggleInvert" }

(* Before the first counted call: a device initialised or not, inverted   *)
(* or not, the cursor wherever gotoXY can put it.                         *)
RenderSetup ==
    /\ draws = 0
    /\ \/ SSD1306_init
       \/ SSD1306_toggleInvert
       \/ gotoXY(RenderCursors)

NextRender ==
    \/ RenderSetup
    \/ SSD1306_updateScreen
    \/ FillWith(TRUE)
    \/ DrawPixelWith(RenderPixels, TRUE)
    \/ GotoXYWith(RenderCursors, TRUE)
    \/ ToggleInvertWith(TRUE)
    \/ DrawLineFrom(RenderLines)
    \/ DrawRectangleFrom(RenderRects)
    \/ DrawFilledRectangleFrom(RenderRects)
    \/ DrawTriangleFrom(RenderTriangles)
    \/ DrawFilledTriangleFrom(RenderTriangles)
    \/ DrawCircleFrom(RenderCircles)
    \/ DrawFilledCircleFrom(RenderCircles)
    \/ DrawBitmapFrom(RenderOrigins, RenderBitmaps)
    \/ PutcFrom(RenderChars, RenderFonts)
    \/ PutsFrom(RenderStrings, RenderFonts)

SpecRender == Init /\ [][NextRender]_vars

(* ======================= properties ======================= *)

Pages == SSD1306_HEIGHT \div 8
Indices == 0..(BufferSize - 1)
AsSeq(buf) == [i \in 1..BufferSize |-> buf[i - 1]]
GetPixel(buf, x, y) == Bit(buf[x + (y \div 8) * SSD1306_WIDTH], y % 8)
DeviceState == <<SSD1306_Buffer, currentX, currentY, inverted, initialized>>

(* b is the transmission sequence of one flush of buf: per page m, the    *)
(* commands 0xB0+m, 0x00, 0x10 and one data write (register 0x40) of the  *)
(* page's bytes.                                                          *)
IsFlushOf(b, buf) ==
    /\ Len(b) = 4 * Pages
    /\ \A m \in 0..(Pages - 1) :
        /\ b[4 * m + 1] = <<0, 176 + m>>
        /\ b[4 * m + 2] = <<0, 0>>
        /\ b[4 * m + 3] = <<0, 16>>
        /\ b[4 * m + 4] = <<64>> \o [i \in 1..SSD1306_WIDTH |->
                                        buf[SSD1306_WIDTH * m + i - 1]]

(* The payloads of the data writes of b, concatenated. *)
RECURSIVE DataPayloads(_, _)
DataPayloads(b, k) ==
    IF k > Len(b) THEN << >>
    ELSE (IF b[k][1] = 64 THEN Tail(b[k]) ELSE << >>) \o DataPayloads(b, k + 1)

(* C1: a flush on an initialised device issues, page by page in ascending  *)
(* order, the three addressing commands and one data write of that page's  *)
(* bytes; the payloads together are the framebuffer, and the device state  *)
(* is left as it was.                                                      *)
C1_FlushProtocol ==
    [][(initialized = 1 /\ op' = "updateScreen") =>
        /\ IsFlushOf(bus', SSD1306_Buffer)
        /\ DataPayloads(bus', 1) = AsSeq(SSD1306_Buffer)
        /\ UNCHANGED DeviceState]_vars

C1_Witness ==
    /\ op = "updateScreen"
    /\ ret = "LCD_OK"
    /\ Len(bus) = 32
    /\ SSD1306_Buffer[5 + SSD1306_WIDTH] = 2
    /\ SSD1306_Buffer[BufferSize - 1] = 128

(* C2: after an init whose probe succeeded the framebuffer is all zero,   *)
(* the call's transmissions end with a full flush of it, and the device   *)
(* is initialised.                                                        *)
C2_InitClearsAndFlushes ==
    (op = "init" /\ ret = "LCD_OK") =>
        /\ \A i \in Indices : SSD1306_Buffer[i] = 0
        /\ Len(bus) >= 4 * Pages
        /\ IsFlushOf(SubSeq(bus, Len(bus) - 4 * Pages + 1, Len(bus)), SSD1306_Buffer)
        /\ initialized = 1

(* C3 as stated: once initialised, initialised after every later call. *)
C3_OneWay == [][initialized = 1 => initialized' = 1]_vars

(* C3: once initialised, the device stays initialised across every call    *)
(* except an init whose probe fails; in particular across a flush whose    *)
(* transmissions fail.                                                     *)
C3_OneWayExceptFailedInit ==
    [][(initialized = 1 /\ ~(op' = "init" /\ ret' = "I2C_ERROR"))
        => initialized' = 1]_vars

C3_Witness == initialized = 1 /\ op = "updateScreen" /\ busError

(* C4: an init whose probe fails on an uninitialised device returns       *)
(* I2C_ERROR, transmits nothing, leaves the framebuffer and the flag as    *)
(* they were; flush, fill, clear and toggleInvert called next return       *)
(* NO_INIT.                                                                *)
C4_FailedProbe ==
    [][/\ (initialized = 0 /\ op' = "init" /\ args' = <<0>>) =>
            /\ ret' = "I2C_ERROR"
            /\ bus' = << >>
            /\ SSD1306_Buffer' = SSD1306_Buffer
            /\ initialized' = 0
       /\ (op = "init" /\ ret = "I2C_ERROR"
           /\ op' \in {"updateScreen", "fill", "clear", "toggleInvert"}) =>
            ret' = "NO_INIT"]_vars

C4_Witness ==
    /\ op = "init"
    /\ ret = "I2C_ERROR"
    /\ initialized = 0
    /\ SSD1306_Buffer[0] = 1

(* C5: a flush on an uninitialised device returns NO_INIT and transmits   *)
(* nothing.                                                                *)
C5_FlushNeedsInit ==
    [][(initialized = 0 /\ op' = "updateScreen") =>
        (ret' = "NO_INIT" /\ bus' = << >>)]_vars

C5_Witness ==
    /\ op = "updateScreen"
    /\ ret = "NO_INIT"
    /\ initialized = 0
    /\ \E i \in Indices : SSD1306_Buffer[i] # 0

(* C6: on an uninitialised device every call other than init (and other   *)
(* than the four of C4) returns NO_INIT, changes no framebuffer byte and   *)
(* transmits nothing.                                                      *)
C6_AllGatedByInit ==
    [][(initialized = 0
        /\ op' \in {"drawPixel", "gotoXY", "scrollRight", "stopScroll",
                    "lcdOn", "lcdOff"}) =>
        /\ ret' = "NO_INIT"
        /\ SSD1306_Buffer' = SSD1306_Buffer
        /\ bus' = << >>]_vars

(* C7: a flush in which a transmission failed does not return LCD_OK. *)
C7_FlushReportsBusError ==
    (op = "updateScreen" /\ busError) => ret # "LCD_OK"

(* C8: drawPixel inside the panel returns LCD_OK and makes bit y & 7 of   *)
(* byte x + (y >> 3) * width equal to color XOR inverted, every other bit  *)
(* unchanged; outside the panel it returns INVALID_PARAMS and changes      *)
(* nothing.                                                                *)
C8_DrawPixel ==
    [][(op' = "drawPixel" /\ args'[3] \in Colors) =>
        LET x == args'[1]
            y == args'[2]
            color == args'[3]
            at == x + (y \div 8) * SSD1306_WIDTH
        IN  IF x < SSD1306_WIDTH /\ y < SSD1306_HEIGHT
            THEN /\ ret' = "LCD_OK"
                 /\ \A i \in Indices \ {at} :
                      SSD1306_Buffer'[i] = SSD1306_Buffer[i]
                 /\ SSD1306_Buffer'[at] \in 0..255
                 /\ \A k \in 0..7 :
                      Bit(SSD1306_Buffer'[at], k) =
                        IF k = y % 8
                        THEN (color + inverted) % 2
                        ELSE Bit(SSD1306_Buffer[at], k)
            ELSE /\ ret' = "INVALID_PARAMS"
                 /\ SSD1306_Buffer' = SSD1306_Buffer]_vars

C8_Witness ==
    /\ op = "drawPixel"
    /\ args = <<5, 9, SSD1306_COLOR_WHITE>>
    /\ ret = "LCD_OK"
    /\ inverted = 1
    /\ SSD1306_Buffer[5 + SSD1306_WIDTH] = 253

(* C9: toggleInvert on an initialised device complements every bit of the *)
(* framebuffer and flips the inverted flag; the second of two consecutive  *)
(* calls restores the framebuffer and the flag the first one found.        *)
C9_ToggleInvert ==
    [][(initialized = 1 /\ op' = "toggleInvert") =>
        /\ ret' = "LCD_OK"
        /\ \A i \in Indices :
             /\ SSD1306_Buffer'[i] \in 0..255
             /\ \A k \in 0..7 :
                  Bit(SSD1306_Buffer'[i], k) = 1 - Bit(SSD1306_Buffer[i], k)
        /\ inverted' = 1 - inverted
        /\ snap.valid =>
             /\ SSD1306_Buffer' = snap.buffer
             /\ inverted' = snap.inverted]_vars

C9_Witness ==
    /\ op = "toggleInvert"
    /\ ret = "LCD_OK"
    /\ snap.second
    /\ SSD1306_Buffer[BufferSize - 1] = 128
    /\ inverted = 0

(* C10: fill on an initialised device makes every byte 0xFF for ON and    *)
(* 0x00 for OFF, so every pixel reads the colour, whatever the buffer and  *)
(* the inverted flag were; cursor and flag are unchanged and nothing is    *)
(* transmitted.                                                            *)
C10_Fill ==
    [][(initialized = 1 /\ op' = "fill" /\ args'[1] \in Colors) =>
        /\ ret' = "LCD_OK"
        /\ \A i \in Indices :
             SSD1306_Buffer'[i] =
                IF args'[1] = SSD1306_COLOR_WHITE THEN 255 ELSE 0
        /\ \A x \in 0..(SSD1306_WIDTH - 1), y \in 0..(SSD1306_HEIGHT - 1) :
             GetPixel(SSD1306_Buffer', x, y) = args'[1]
        /\ bus' = << >>
        /\ UNCHANGED <<currentX, currentY, inverted>>]_vars

C10_Witness ==
    /\ op = "fill"
    /\ args = <<SSD1306_COLOR_WHITE>>
    /\ ret = "LCD_OK"
    /\ inverted = 1
    /\ currentX = 10
    /\ SSD1306_Buffer[0] = 255

(* new holds c at the pixels of In and the bits of old everywhere else;   *)
(* In lies in columns xa..xb and rows ya..yb.                             *)
SetsExactly(old, new, xa, xb, ya, yb, In(_, _), c) ==
    \A i \in Indices :
        LET x == i % SSD1306_WIDTH
            page == i \div SSD1306_WIDTH
        IN  IF x >= xa /\ x <= xb /\ page >= ya \div 8 /\ page <= yb \div 8
            THEN /\ new[i] \in 0..255
                 /\ \A k \in 0..7 :
                      Bit(new[i], k) = IF In(x, 8 * page + k) THEN c
                                       ELSE Bit(old[i], k)
            ELSE new[i] = old[i]

Min(a, b) == IF a < b THEN a ELSE b
Max(a, b) == IF a < b THEN b ELSE a
InPanel(x, y) == x >= 0 /\ x < SSD1306_WIDTH /\ y >= 0 /\ y < SSD1306_HEIGHT

(* C11: a horizontal or vertical drawLine with in-panel endpoints and     *)
(* colour ON on a non-inverted buffer sets exactly the pixels of the run   *)
(* between the endpoints, inclusive, and the result does not depend on     *)
(* which endpoint comes first.                                             *)
C11_AxisLine ==
    [][(op' = "drawLine" /\ inverted = 0 /\ args'[5] = SSD1306_COLOR_WHITE
        /\ InPanel(args'[1], args'[2]) /\ InPanel(args'[3], args'[4])
        /\ (args'[1] = args'[3] \/ args'[2] = args'[4])) =>
        LET xa == Min(args'[1], args'[3])
            xb == Max(args'[1], args'[3])
            ya == Min(args'[2], args'[4])
            yb == Max(args'[2], args'[4])
            Run(x, y) == x >= xa /\ x <= xb /\ y >= ya /\ y <= yb
        IN  /\ ret' = "LCD_OK"
            /\ SetsExactly(SSD1306_Buffer, SSD1306_Buffer', xa, xb, ya, yb, Run, 1)
            /\ SSD1306_Buffer' = drawLine(SSD1306_Buffer, inverted, args'[3],
                                          args'[4], args'[1], args'[2], 1)]_vars

C11_Witness ==
    /\ op = "drawLine"
    /\ args = <<0, 0, 10, 0, SSD1306_COLOR_WHITE>>
    /\ inverted = 0
    /\ \A x \in 0..10 : GetPixel(SSD1306_Buffer, x, 0) = 1
    /\ GetPixel(SSD1306_Buffer, 11, 0) = 0

(* C12: for x, y inside the panel and any w, h, with x2 = min(x + w,      *)
(* width - 1) and y2 = min(y + h, height - 1), drawRectangle writes the    *)
(* colour (XOR inverted) to exactly the border pixels of [x..x2] x         *)
(* [y..y2], drawFilledRectangle to exactly all pixels of that box, and     *)
(* both return LCD_OK; for x or y outside the panel both return            *)
(* INVALID_PARAMS and change nothing.                                      *)
C12_Rectangles ==
    [][(op' \in {"drawRectangle", "drawFilledRectangle"}) =>
        LET x == args'[1]
            y == args'[2]
            x2 == Min(x + args'[3], SSD1306_WIDTH - 1)
            y2 == Min(y + args'[4], SSD1306_HEIGHT - 1)
            Box(a, b) == a >= x /\ a <= x2 /\ b >= y /\ b <= y2
            Border(a, b) == Box(a, b) /\ (a = x \/ a = x2 \/ b = y \/ b = y2)
            c == (args'[5] + inverted) % 2
        IN  IF x < SSD1306_WIDTH /\ y < SSD1306_HEIGHT
            THEN /\ ret' = "LCD_OK"
                 /\ IF op' = "drawRectangle"
                    THEN SetsExactly(SSD1306_Buffer, SSD1306_Buffer',
                                     x, x2, y, y2, Border, c)
                    ELSE SetsExactly(SSD1306_Buffer, SSD1306_Buffer',
                                     x, x2, y, y2, Box, c)
            ELSE /\ ret' = "INVALID_PARAMS"
                 /\ SSD1306_Buffer' = SSD1306_Buffer]_vars

C12_Witness ==
    /\ op = "drawFilledRectangle"
    /\ args = <<120, 60, 20, 10, SSD1306_COLOR_BLACK>>
    /\ ret = "LCD_OK"
    /\ inverted = 0
    /\ GetPixel(SSD1306_Buffer, 127, 63) = 0
    /\ GetPixel(SSD1306_Buffer, 119, 63) = 1
    /\ GetPixel(SSD1306_Buffer, 120, 59) = 1

Abs(v) == IF v < 0 THEN -v ELSE v

Blank(buf) == \A i \in Indices : buf[i] = 0

SetPixels(buf) ==
    { p \in (0..(SSD1306_WIDTH - 1)) \X (0..(SSD1306_HEIGHT - 1)) :
        GetPixel(buf, p[1], p[2]) = 1 }

(* The eight images of the offset (a, b) under the reflections about the  *)
(* centre (cx, cy).                                                       *)
Reflections(cx, cy, a, b) ==
    { <<cx + a, cy + b>>, <<cx - a, cy + b>>, <<cx + a, cy - b>>, <<cx - a, cy - b>>,
      <<cx + b, cy + a>>, <<cx - b, cy + a>>, <<cx + b, cy - a>>, <<cx - b, cy - a>> }

(* After drawCircle(cx, cy, r, ON) on a blank non-inverted buffer: every   *)
(* set pixel lies within r of the centre on both axes, and each of its     *)
(* eight reflections that is inside the panel is set too.                  *)
CircleSymmetric(buf, cx, cy, r) ==
    \A p \in SetPixels(buf) :
        LET a == p[1] - cx
            b == p[2] - cy
        IN  /\ Abs(a) <= r /\ Abs(b) <= r
            /\ \A q \in Reflections(cx, cy, a, b) :
                   InPanel(q[1], q[2]) => GetPixel(buf, q[1], q[2]) = 1

CircleCall ==
    /\ op' = "drawCircle"
    /\ Blank(SSD1306_Buffer) /\ inverted = 0
    /\ args'[4] = SSD1306_COLOR_WHITE
    /\ args'[3] >= 0

(* No coordinate x0 +- x, x0 +- y (y0 likewise) of the call converts to a  *)
(* uint16_t inside the panel unless it is inside the panel itself.         *)
NoCoordinateWrap(cx, cy, r) ==
    /\ cx - r > SSD1306_WIDTH - 1 - 65536
    /\ cy - r > SSD1306_HEIGHT - 1 - 65536

(* C13 as stated: for every centre and every radius r >= 0 the pixels      *)
(* drawCircle sets on a blank non-inverted buffer are closed under the     *)
(* eight reflections about the centre (clipped to the panel), reflections  *)
(* outside the panel are dropped and no other pixel changes.               *)
C13_CircleAnyCentre ==
    [][CircleCall =>
          /\ ret' = "LCD_OK"
          /\ CircleSymmetric(SSD1306_Buffer', args'[1], args'[2], args'[3])]_vars

(* C13, amended: the same, for every centre and radius r >= 0 with         *)
(* cx - r > -65409 and cy - r > -65473 (every centre inside the panel and  *)
(* every centre within 32767 of it qualifies).                             *)
C13_CircleNoWrap ==
    [][(CircleCall /\ NoCoordinateWrap(args'[1], args'[2], args'[3])) =>
          /\ ret' = "LCD_OK"
          /\ CircleSymmetric(SSD1306_Buffer', args'[1], args'[2], args'[3])]_vars

(* A circle of radius 4 about (126, 32) on a blank buffer: the top and the *)
(* left points are set, the right point (130, 32) is dropped.              *)
C13_Witness ==
    /\ op = "drawCircle" /\ args = <<126, 32, 4, SSD1306_COLOR_WHITE>>
    /\ inverted = 0
    /\ GetPixel(SSD1306_Buffer, 126, 28) = 1
    /\ GetPixel(SSD1306_Buffer, 122, 32) = 1
    /\ GetPixel(SSD1306_Buffer, 126, 36) = 1
    /\ \A p \in SetPixels(SSD1306_Buffer) :
           Abs(p[1] - 126) <= 4 /\ Abs(p[2] - 32) <= 4

ChangedPixels(old, new) ==
    { p \in (0..(SSD1306_WIDTH - 1)) \X (0..(SSD1306_HEIGHT - 1)) :
        GetPixel(old, p[1], p[2]) # GetPixel(new, p[1], p[2]) }

(* C14: every pixel drawFilledCircle(cx, cy, r, color) changes lies inside *)
(* the bounding square [cx-r .. cx+r] x [cy-r .. cy+r] of the disc: what   *)
(* falls outside the panel is dropped, not redrawn elsewhere.              *)
C14_FilledCircleClipped ==
    [][op' = "drawFilledCircle" =>
          \A p \in ChangedPixels(SSD1306_Buffer, SSD1306_Buffer') :
              /\ Abs(p[1] - args'[1]) <= args'[3]
              /\ Abs(p[2] - args'[2]) <= args'[3]]_vars

(* Bit 7 - (i mod 8) of byte j * ceil(w / 8) + i / 8 of the bitmap. *)
SourceBit(bitmap, w, i, j) ==
    Bit(bitmap[j * ((w + 7) \div 8) + i \div 8 + 1], 7 - (i % 8))

(* C15: drawBitmap(x, y, bitmap, w, h, color) returns OK; every in-panel   *)
(* pixel (x + i, y + j) of the w x h box whose source bit is set becomes   *)
(* color XOR inverted, and every other pixel (source bit clear, or outside *)
(* the box) keeps its value.                                               *)
C15_TransparentBlit ==
    [][op' = "drawBitmap" =>
        LET x == args'[1]
            y == args'[2]
            bitmap == args'[3]
            w == args'[4]
            h == args'[5]
            Src(a, b) == /\ a >= x /\ a < x + w /\ b >= y /\ b < y + h
                         /\ SourceBit(bitmap, w, a - x, b - y) = 1
        IN  /\ ret' = "LCD_OK"
            /\ SetsExactly(SSD1306_Buffer, SSD1306_Buffer',
                           x, x + w - 1, y, y + h - 1, Src,
                           (args'[6] + inverted) % 2)]_vars

(* An all-ON 8 x 2 bitmap drawn with ON at (10, 10) on a non-inverted      *)
(* buffer: the whole box reads ON.                                         *)
C15_Witness ==
    /\ op = "drawBitmap"
    /\ args = <<10, 10, <<255, 255>>, 8, 2, SSD1306_COLOR_WHITE>>
    /\ inverted = 0
    /\ \A a \in 10..17, b \in 10..11 : GetPixel(SSD1306_Buffer, a, b) = 1

(* new differs from old exactly as writing Val(x, y) to every pixel        *)
(* satisfying In would; In holds only inside [xa .. xb] x [ya .. yb].      *)
WritesExactly(old, new, xa, xb, ya, yb, In(_, _), Val(_, _)) ==
    \A i \in Indices :
        LET x == i % SSD1306_WIDTH
            page == i \div SSD1306_WIDTH
        IN  IF x >= xa /\ x <= xb /\ page >= ya \div 8 /\ page <= yb \div 8
            THEN /\ new[i] \in 0..255
                 /\ \A k \in 0..7 :
                      Bit(new[i], k) = IF In(x, 8 * page + k)
                                       THEN Val(x, 8 * page + k)
                                       ELSE Bit(old[i], k)
            ELSE new[i] = old[i]

(* Bit 15 - j of row i of the glyph of ch. *)
GlyphBit(font, ch, i, j) ==
    Bit(font.data[(ch - 32) * font.fontHeight + i + 1], 15 - j)

(* C16: a putc that returns OK writes every pixel (cursorX + j,            *)
(* cursorY + i) of the fontWidth x fontHeight box: to color if bit 15 - j  *)
(* of glyph row i is set, to the opposite color otherwise (both XOR        *)
(* inverted); no pixel outside the box changes, cursorX grows by           *)
(* fontWidth and cursorY is unchanged. (For a character the table has no   *)
(* glyph for, only the box, the cursor and the result are stated.)         *)
C16_OpaqueBlit ==
    [][(op' = "putc" /\ ret' = "LCD_OK") =>
        LET ch == args'[1]
            font == args'[2]
            c == (args'[3] + inverted) % 2
            x2 == currentX + font.fontWidth - 1
            y2 == currentY + font.fontHeight - 1
            Box(a, b) == a >= currentX /\ a <= x2 /\ b >= currentY /\ b <= y2
            Val(a, b) == IF HasGlyph(font, ch)
                         THEN IF GlyphBit(font, ch, b - currentY, a - currentX) = 1
                              THEN c ELSE 1 - c
                         ELSE GetPixel(SSD1306_Buffer', a, b)
        IN  /\ currentX' = currentX + font.fontWidth
            /\ currentY' = currentY
            /\ WritesExactly(SSD1306_Buffer, SSD1306_Buffer',
                             currentX, x2, currentY, y2, Box, Val)]_vars

(* The glyph of character 33 in the 7 x 10 font, drawn ON at (100, 30) on  *)
(* a non-inverted buffer: some pixel of the box is ON, some is OFF, and    *)
(* the cursor stands at 107.                                               *)
C16_Witness ==
    /\ op = "putc" /\ ret = "LCD_OK"
    /\ args[1] = 33 /\ args[2].fontWidth = 7 /\ args[3] = SSD1306_COLOR_WHITE
    /\ inverted = 0
    /\ currentX = 107 /\ currentY = 30
    /\ \E j \in 0..6, i \in 0..9 :
           /\ GlyphBit(args[2], 33, i, j) = 1
           /\ GetPixel(SSD1306_Buffer, 100 + j, 30 + i) = 1
    /\ \E j \in 0..6, i \in 0..9 :
           /\ GlyphBit(args[2], 33, i, j) = 0
           /\ GetPixel(SSD1306_Buffer, 100 + j, 30 + i) = 0

PutcRejected ==
    /\ ret' = "INVALID_PARAMS"
    /\ SSD1306_Buffer' = SSD1306_Buffer
    /\ currentX' = currentX
    /\ currentY' = currentY

(* C17 as stated: putc is rejected, leaving buffer and cursor unchanged,   *)
(* exactly when cursorX + fontWidth > width or cursorY + fontHeight >      *)
(* height; a glyph box that fits, also one ending on the last column or    *)
(* row, is drawn and returns OK.                                           *)
C17_RejectedIffBoxExceeds ==
    [][op' = "putc" =>
        IF \/ currentX + args'[2].fontWidth > SSD1306_WIDTH
           \/ currentY + args'[2].fontHeight > SSD1306_HEIGHT
        THEN PutcRejected
        ELSE ret' = "LCD_OK"]_vars

(* C17, amended: putc is rejected, leaving buffer and cursor unchanged,    *)
(* exactly when cursorX + fontWidth >= width or cursorY + fontHeight >=    *)
(* height; a glyph box ending on the last column or row is rejected too,   *)
(* any other is drawn and returns OK.                                      *)
C17_RejectedIffBoxReachesEdge ==
    [][op' = "putc" =>
        IF \/ currentX + args'[2].fontWidth >= SSD1306_WIDTH
           \/ currentY + args'[2].fontHeight >= SSD1306_HEIGHT
        THEN PutcRejected
        ELSE ret' = "LCD_OK"]_vars

(* A 7-wide glyph at cursorX = 121 would end on column 127: rejected. *)
C17_Witness ==
    /\ op = "putc" /\ ret = "INVALID_PARAMS"
    /\ currentX + args[2].fontWidth = SSD1306_WIDTH
    /\ currentY + args[2].fontHeight < SSD1306_HEIGHT

(* What C18 describes: putc on the characters in order, stopping at the    *)
(* first one putc rejects and returning its result.                        *)
RECURSIVE PutsStopsAtFailure(_, _, _, _, _, _, _, _)
PutsStopsAtFailure(buf, inv, cx, cy, str, font, color, junk) ==
    IF str = << >>
    THEN [ret |-> "LCD_OK", buf |-> buf, currentX |-> cx]
    ELSE LET r == putc(buf, inv, cx, cy, Head(str), font, color, junk)
         IN  IF r.ret # "LCD_OK" THEN r
             ELSE PutsStopsAtFailure(r.buf, inv, r.currentX, cy, Tail(str),
                                     font, color, junk)

(* C18: puts draws the characters in order up to the first one putc        *)
(* rejects, leaves the cursor after the last drawn character and returns   *)
(* that rejection; it returns OK only if every character was drawn.        *)
C18_PutsReportsFailure ==
    [][op' = "puts" =>
        LET e == PutsStopsAtFailure(SSD1306_Buffer, inverted, currentX, currentY,
                                    args'[1], args'[2], args'[3], args'[4])
        IN  /\ ret' = e.ret
            /\ SSD1306_Buffer' = e.buf
            /\ currentX' = e.currentX
            /\ currentY' = currentY]_vars

(* C19: putc of a character below 32 returns INVALID_PARAMS and changes    *)
(* neither the buffer nor the cursor.                                      *)
C19_PutcRejectsLowChar ==
    [][(op' = "putc" /\ args'[1] < 32) => PutcRejected]_vars

ScrollNames == {"scrollRight", "scrollLeft", "scrollDiagRight", "scrollDiagLeft"}

(* The opcode that configures the scroll of the named function, and the    *)
(* position of start_page among the commands the function issues.          *)
ScrollOpcode(name) ==
    CASE name = "scrollRight" -> SSD1306_RIGHT_HORIZONTAL_SCROLL
      [] name = "scrollLeft" -> SSD1306_LEFT_HORIZONTAL_SCROLL
      [] name = "scrollDiagRight" -> SSD1306_VERTICAL_AND_RIGHT_HORIZONTAL_SCROLL
      [] name = "scrollDiagLeft" -> SSD1306_VERTICAL_AND_LEFT_HORIZONTAL_SCROLL

(* C20: each of scrollRight, scrollLeft, scrollDiagRight, scrollDiagLeft   *)
(* returns INVALID_PARAMS and issues no command exactly when               *)
(* start_page <= end_page < pageCount is violated; otherwise it issues     *)
(* only commands, its scroll opcode followed by start_page and then        *)
(* end_page (each after a dummy byte), the activate command 0x2F last,     *)
(* and returns OK; buffer, cursor and inverted flag never change.          *)
C20_ScrollValidation ==
    [][op' \in ScrollNames =>
        LET start_page == args'[1]
            end_page == args'[2]
            n == Len(bus')
        IN  /\ SSD1306_Buffer' = SSD1306_Buffer
            /\ currentX' = currentX /\ currentY' = currentY
            /\ inverted' = inverted
            /\ IF ~(start_page <= end_page /\ end_page < SSD1306_MAX_PAGE_NUM)
               THEN ret' = "INVALID_PARAMS" /\ bus' = << >>
               ELSE /\ ret' = "LCD_OK"
                    /\ n >= 6
                    /\ \A k \in 1..n : Len(bus'[k]) = 2 /\ bus'[k][1] = 0
                    /\ bus'[n] = <<0, SSD1306_ACTIVATE_SCROLL>>
                    /\ \E k \in 1..(n - 5) :
                          /\ bus'[k] = <<0, ScrollOpcode(op')>>
                          /\ bus'[k + 2] = <<0, start_page>>
                          /\ bus'[k + 4] = <<0, end_page>>
                          /\ \A m \in 1..(k - 1) :
                                bus'[m][2] # ScrollOpcode(op')]_vars

(* scrollDiagLeft(1, 5) was accepted: ten commands, the last one 0x2F. *)
C20_Witness ==
    /\ op = "scrollDiagLeft" /\ args = <<1, 5>> /\ ret = "LCD_OK"
    /\ Len(bus) = 10
    /\ bus[10] = <<0, SSD1306_ACTIVATE_SCROLL>>

(* C21: drawPixel and fill called with a color other than OFF (0) or ON    *)
(* (1) return INVALID_PARAMS and leave the framebuffer unchanged, whatever *)
(* the device state and the inverted flag.                                 *)
C21_InvalidColorRejected ==
    [][(\/ op' = "drawPixel" /\ args'[3] \notin Colors
        \/ op' = "fill" /\ args'[1] \notin Colors) =>
        /\ ret' = "INVALID_PARAMS"
        /\ SSD1306_Buffer' = SSD1306_Buffer]_vars

(* C21 on an initialized device only, where fill does not answer NO_INIT:  *)
(* still violated, by drawPixel while the inverted flag is set.            *)
C21_InvalidColorRejectedAfterInit ==
    [][(/\ initialized = 1
        /\ \/ op' = "drawPixel" /\ args'[3] \notin Colors
           \/ op' = "fill" /\ args'[1] \notin Colors) =>
        /\ ret' = "INVALID_PARAMS"
        /\ SSD1306_Buffer' = SSD1306_Buffer]_vars

(* What the code does with a color outside {OFF, ON}: fill rejects it once *)
(* the device is initialized; drawPixel rejects it while the inverted flag *)
(* is clear, and treats it as ON (writing OFF) while the flag is set.      *)
C21_InvalidColorAsCoded ==
    [][(\/ op' = "drawPixel" /\ args'[3] \notin Colors
        \/ op' = "fill" /\ args'[1] \notin Colors) =>
        IF op' = "fill"
        THEN /\ ret' = IF initialized = 1 THEN "INVALID_PARAMS" ELSE "NO_INIT"
             /\ SSD1306_Buffer' = SSD1306_Buffer
        ELSE IF inverted = 0 \/ args'[1] >= SSD1306_WIDTH
                \/ args'[2] >= SSD1306_HEIGHT
        THEN /\ ret' = "INVALID_PARAMS"
             /\ SSD1306_Buffer' = SSD1306_Buffer
        ELSE /\ ret' = "LCD_OK"
             /\ GetPixel(SSD1306_Buffer', args'[1], args'[2]) = 0]_vars

Clamp(v, limit) == IF v >= limit THEN limit - 1 ELSE v

(* n rounds of the stepping loop of drawLine, recording in pts the pixel   *)
(* each round draws; t = [s, pts] with s the loop state of LineStep.       *)
RECURSIVE LineTraceIter(_, _, _, _, _)
LineTraceIter(t, inv, g, color, n) ==
    IF n <= 0 \/ t.s.done THEN t
    ELSE IF n = 1
    THEN [s |-> LineStep(t.s, inv, g, color),
          pts |-> Append(t.pts, <<t.s.x0, t.s.y0>>)]
    ELSE LET t1 == LineTraceIter(t, inv, g, color, n \div 2)
         IN  LineTraceIter(t1, inv, g, color, n - n \div 2)

(* The stepping loop run from the clamped end points for up to             *)
(* 4 * (width + height) rounds, far more than any line needs.              *)
LineTrace(buf, inv, x0, y0, x1, y1, color) ==
    LET dx == Abs(x1 - x0)
        dy == Abs(y1 - y0)
        g == [x1 |-> x1, y1 |-> y1, dx |-> dx, dy |-> dy,
              sx |-> IF x0 < x1 THEN 1 ELSE -1,
              sy |-> IF y0 < y1 THEN 1 ELSE -1]
    IN  LineTraceIter([s |-> [buf |-> buf, x0 |-> x0, y0 |-> y0,
                              err |-> (IF dx > dy THEN dx ELSE -dy) \div 2,
                              done |-> FALSE],
                       pts |-> << >>],
                      inv, g, color, 4 * (SSD1306_WIDTH + SSD1306_HEIGHT))

(* C23: with the end points clamped to the panel, the stepping loop of     *)
(* drawLine (dx # 0 and dy # 0) leaves by its break; it draws exactly      *)
(* max(dx, dy) + 1 pixels, the first the clamped (x0, y0), the last the    *)
(* clamped (x1, y1), consecutive ones at most 1 apart in x and in y, all   *)
(* inside the bounding box of the end points; these pixels are what the    *)
(* call changes.                                                           *)
C23_LineSteps ==
    [][op' = "drawLine" =>
        LET x0 == Clamp(args'[1], SSD1306_WIDTH)
            y0 == Clamp(args'[2], SSD1306_HEIGHT)
            x1 == Clamp(args'[3], SSD1306_WIDTH)
            y1 == Clamp(args'[4], SSD1306_HEIGHT)
        IN  /\ ret' = "LCD_OK"
            /\ (x0 # x1 /\ y0 # y1) =>
                 \A t \in {LineTrace(SSD1306_Buffer, inverted, x0, y0, x1, y1,
                                     args'[5])} :
                 \A pts \in {t.pts} :
                 \A drawn \in {{pts[k] : k \in 1..Len(pts)}} :
                     /\ t.s.done
                     /\ SSD1306_Buffer' = t.s.buf
                     /\ Len(pts) = Max(Abs(x1 - x0), Abs(y1 - y0)) + 1
                     /\ pts[1] = <<x0, y0>>
                     /\ pts[Len(pts)] = <<x1, y1>>
                     /\ \A k \in 1..(Len(pts) - 1) :
                          /\ Abs(pts[k + 1][1] - pts[k][1]) <= 1
                          /\ Abs(pts[k + 1][2] - pts[k][2]) <= 1
                     /\ \A q \in drawn :
                          /\ q[1] >= Min(x0, x1) /\ q[1] <= Max(x0, x1)
                          /\ q[2] >= Min(y0, y1) /\ q[2] <= Max(y0, y1)
                     /\ SetsExactly(SSD1306_Buffer, SSD1306_Buffer',
                                    Min(x0, x1), Max(x0, x1),
                                    Min(y0, y1), Max(y0, y1),
                                    LAMBDA a, b : <<a, b>> \in drawn,
                                    (args'[5] + inverted) % 2)]_vars

(* The line from (200, 70), clamped to (127, 63), to (37, 11): 91 pixels   *)
(* on a blank buffer, both clamped end points among them.                  *)
C23_Witness ==
    /\ op = "drawLine" /\ args = <<200, 70, 37, 11, SSD1306_COLOR_WHITE>>
    /\ GetPixel(SSD1306_Buffer, 127, 63) = 1
    /\ GetPixel(SSD1306_Buffer, 37, 11) = 1
    /\ Cardinality(SetPixels(SSD1306_Buffer)) = 91

(* n rounds of the loop of drawFilledTriangle, recording in starts the     *)
(* walking point each round draws its line from; t = [s, starts].          *)
RECURSIVE TriangleTraceIter(_, _, _, _, _, _, _)
TriangleTraceIter(t, inv, c, x3, y3, color, n) ==
    IF n <= 0 \/ ~(t.s.curpixel <= c.numpixels) THEN t
    ELSE IF n = 1
    THEN [s |-> FilledTriangleStep(t.s, inv, c, x3, y3, color),
          starts |-> Append(t.starts, <<t.s.x, t.s.y>>)]
    ELSE LET t1 == TriangleTraceIter(t, inv, c, x3, y3, color, n \div 2)
         IN  TriangleTraceIter(t1, inv, c, x3, y3, color, n - n \div 2)

TriangleTrace(buf, inv, x1, y1, x2, y2, x3, y3, color) ==
    LET c == FilledTriangleSetup(x1, y1, x2, y2)
    IN  TriangleTraceIter([s |-> [buf |-> buf, num |-> c.num, x |-> x1, y |-> y1,
                                  curpixel |-> 0],
                           starts |-> << >>],
                          inv, c, x3, y3, color,
                          4 * (SSD1306_WIDTH + SSD1306_HEIGHT))

(* The lines from the points st[k], ..., st[k + n - 1], in this order,     *)
(* each to (x3, y3); s = [buf, k].                                         *)
RECURSIVE LinesTo(_, _, _, _, _, _, _)
LinesTo(s, inv, st, x3, y3, color, n) ==
    IF n <= 0 \/ s.k > Len(st) THEN s
    ELSE IF n = 1
    THEN [buf |-> drawLine(s.buf, inv, st[s.k][1], st[s.k][2], x3, y3, color),
          k |-> s.k + 1]
    ELSE LET s1 == LinesTo(s, inv, st, x3, y3, color, n \div 2)
         IN  LinesTo(s1, inv, st, x3, y3, color, n - n \div 2)

Sign(v) == IF v > 0 THEN 1 ELSE IF v < 0 THEN -1 ELSE 0

(* C24: for in-panel vertices drawFilledTriangle draws exactly             *)
(* max(|x2-x1|, |y2-y1|) + 1 lines, each ending at p3, from a walking      *)
(* point that starts at p1, advances by one along the major axis of        *)
(* p1 -> p2 (and at most one along the other) per line and is exactly p2   *)
(* for the last line; p1, p2, p3 are set and every changed pixel lies in   *)
(* the bounding box of the three vertices.                                 *)
C24_FilledTriangle ==
    [][(/\ op' = "drawFilledTriangle"
        /\ InPanel(args'[1], args'[2]) /\ InPanel(args'[3], args'[4])
        /\ InPanel(args'[5], args'[6])) =>
        LET x1 == args'[1]
            y1 == args'[2]
            x2 == args'[3]
            y2 == args'[4]
            x3 == args'[5]
            y3 == args'[6]
            color == args'[7]
            c == (color + inverted) % 2
            xMajor == Abs(x2 - x1) >= Abs(y2 - y1)
            count == Max(Abs(x2 - x1), Abs(y2 - y1)) + 1
        IN  \A t \in {TriangleTrace(SSD1306_Buffer, inverted, x1, y1, x2, y2,
                                    x3, y3, color)} :
            \A st \in {t.starts} :
                /\ ret' = "LCD_OK"
                /\ ~(t.s.curpixel <= count - 1)
                /\ Len(st) = count
                /\ st[1] = <<x1, y1>>
                /\ st[count] = <<x2, y2>>
                /\ \A k \in 1..(count - 1) :
                     IF xMajor
                     THEN /\ st[k + 1][1] = st[k][1] + Sign(x2 - x1)
                          /\ Abs(st[k + 1][2] - st[k][2]) <= 1
                     ELSE /\ st[k + 1][2] = st[k][2] + Sign(y2 - y1)
                          /\ Abs(st[k + 1][1] - st[k][1]) <= 1
                /\ SSD1306_Buffer' =
                     LinesTo([buf |-> SSD1306_Buffer, k |-> 1], inverted, st,
                             x3, y3, color, count).buf
                /\ GetPixel(SSD1306_Buffer', x1, y1) = c
                /\ GetPixel(SSD1306_Buffer', x2, y2) = c
                /\ GetPixel(SSD1306_Buffer', x3, y3) = c
                /\ \A q \in ChangedPixels(SSD1306_Buffer, SSD1306_Buffer') :
                     /\ q[1] >= Min(x1, Min(x2, x3)) /\ q[1] <= Max(x1, Max(x2, x3))
                     /\ q[2] >= Min(y1, Min(y2, y3)) /\ q[2] <= Max(y1, Max(y2, y3))]_vars

(* The triangle (50, 5), (52, 40), (10, 20) drawn ON on a blank buffer:    *)
(* its three vertices are set and nothing outside its bounding box is.     *)
C24_Witness ==
    /\ op = "drawFilledTriangle"
    /\ args = <<50, 5, 52, 40, 10, 20, SSD1306_COLOR_WHITE>>
    /\ inverted = 0
    /\ GetPixel(SSD1306_Buffer, 50, 5) = 1
    /\ GetPixel(SSD1306_Buffer, 52, 40) = 1
    /\ GetPixel(SSD1306_Buffer, 10, 20) = 1
    /\ \A q \in SetPixels(SSD1306_Buffer) :
           q[1] >= 10 /\ q[1] <= 52 /\ q[2] >= 5 /\ q[2] <= 40

(* ------------------------------------------------------------------ *)
(* Rendering never touches the bus                                     *)
(* ------------------------------------------------------------------ *)

(* C22: no Rendering Engine operation (fill, drawPixel, drawLine, the      *)
(* rectangles, triangles and circles, drawBitmap, putc, puts, gotoXY,      *)
(* toggleInvert) issues a bus transaction, whatever it returns; what was   *)
(* drawn reaches the bus only in a later flush, whose data payloads are    *)
(* the framebuffer the rendering calls left.                               *)
C22_RenderingOffBus ==
    [][/\ op' \in RenderOps => (bus' = << >> /\ ~busError')
       /\ (op' = "updateScreen" /\ initialized = 1) =>
              /\ DataPayloads(bus', 1) = AsSeq(SSD1306_Buffer)
              /\ SSD1306_Buffer' = SSD1306_Buffer]_vars

(* A flush after MaxDraws rendering calls that left a drawing (a buffer    *)
(* that is neither blank nor full) carries that drawing.                   *)
C22_Witness ==
    /\ op = "updateScreen"
    /\ ret = "LCD_OK"
    /\ draws = MaxDraws
    /\ \E i, j \in 0..(BufferSize - 1) : SSD1306_Buffer[i] # SSD1306_Buffer[j]
    /\ DataPayloads(bus, 1) = AsSeq(SSD1306_Buffer)

(* ------------------------------------------------------------------ *)
(* The staging buffer of SSD1306_I2C_WriteMulti                        *)
(* ------------------------------------------------------------------ *)

(* The indices of data_tmp the call writes: none when the guard        *)
(* returns, else 0 (the register byte) and 1 .. count (the memcpy).    *)
DataTmpWritten(count) ==
    IF count > SSD1306_I2C_DATATMP_SIZE THEN {} ELSE 0..count

(* The indices of data_tmp, an array of SSD1306_I2C_DATATMP_SIZE bytes. *)
DataTmpIndices == 0..(SSD1306_I2C_DATATMP_SIZE - 1)

RegInputs == { 0, 64 }
CountInputs == { 0, 1, 2, 127, 128, 254, 255, 256, 257, 300, 65535 }
SeedInputs == { 0, 1, 77, 129, 200, 255 }
BeyondInputs == { 0, 90, 255 }

(* The caller's data: count bytes, told apart by a seed. *)
CallerData(seed, count) ==
    [i \in 0..(Min(count, SSD1306_I2C_DATATMP_SIZE) - 1) |-> (seed + i) % 256]

(* One direct call SSD1306_I2C_WriteMulti(addr, reg, data, count).  When  *)
(* the memcpy runs past the end of data_tmp the byte transmitted from     *)
(* beyond the array is whatever the build keeps there: the byte just      *)
(* copied, or any other value.                                            *)
I2C_WriteMulti ==
    \E reg \in RegInputs, count \in CountInputs, seed \in SeedInputs :
        LET sent == SSD1306_I2C_WriteMulti(reg, CallerData(seed, count), 0, count)
            overrun == DataTmpWritten(count) \ DataTmpIndices
        IN  /\ op' = "I2C_WriteMulti"
            /\ args' = <<reg, count, seed>>
            /\ ret' = "void"
            /\ IF overrun = {}
               THEN bus' = sent
               ELSE \E beyond \in BeyondInputs \cup {sent[1][count + 1]} :
                        bus' = << SubSeq(sent[1], 1, SSD1306_I2C_DATATMP_SIZE)
                                  \o <<beyond>> >>
            /\ busError' = FALSE
            /\ snap' = NoSnap
            /\ UNCHANGED <<SSD1306_Buffer, currentX, currentY, inverted,
                           initialized, draws>>

SpecWriteMulti == Init /\ [][I2C_WriteMulti]_vars

(* C25: SSD1306_I2C_WriteMulti never writes outside data_tmp, for every    *)
(* count: when the register byte plus count payload bytes do not fit in    *)
(* the SSD1306_I2C_DATATMP_SIZE bytes nothing is copied and nothing is     *)
(* transmitted, and otherwise one transmission of count + 1 bytes is made, *)
(* the register byte followed by the payload.                              *)
C25_WriteMultiInBounds ==
    [][op' = "I2C_WriteMulti" =>
        LET reg == args'[1]
            count == args'[2]
            data == CallerData(args'[3], count)
        IN  /\ DataTmpWritten(count) \subseteq DataTmpIndices
            /\ IF count + 1 > SSD1306_I2C_DATATMP_SIZE
               THEN DataTmpWritten(count) = {} /\ bus' = << >>
               ELSE /\ Len(bus') = 1
                    /\ Len(bus'[1]) = count + 1
                    /\ bus'[1][1] = reg
                    /\ \A i \in 1..count : bus'[1][i + 1] = data[i - 1]]_vars

(* What the code does: the guard compares count, not count + 1, with the   *)
(* size, so the claim's behaviour is had for every count but the one equal *)
(* to the size.                                                            *)
C25_WriteMultiAsCoded ==
    [][(op' = "I2C_WriteMulti" /\ args'[2] # SSD1306_I2C_DATATMP_SIZE) =>
        LET reg == args'[1]
            count == args'[2]
            data == CallerData(args'[3], count)
        IN  /\ DataTmpWritten(count) \subseteq DataTmpIndices
            /\ IF count + 1 > SSD1306_I2C_DATATMP_SIZE
               THEN DataTmpWritten(count) = {} /\ bus' = << >>
               ELSE /\ Len(bus') = 1
                    /\ Len(bus'[1]) = count + 1
                    /\ bus'[1][1] = reg
                    /\ \A i \in 1..count : bus'[1][i + 1] = data[i - 1]]_vars

(* The call with count equal to the size: 257 bytes leave, the last one    *)
(* taken from beyond the array.                                            *)
C25_OverrunReached ==
    /\ op = "I2C_WriteMulti"
    /\ args[2] = SSD1306_I2C_DATATMP_SIZE
    /\ Len(bus) = 1
    /\ Len(bus[1]) = SSD1306_I2C_DATATMP_SIZE + 1
    /\ SSD1306_I2C_DATATMP_SIZE \in DataTmpWritten(args[2])

(* ------------------------------------------------------------------ *)
(* Inversion and drawing                                               *)
(* ------------------------------------------------------------------ *)

(* The primitives that write through drawPixel. *)
PixelPrimitives ==
    { "drawPixel", "drawLine", "drawRectangle", "drawFilledRectangle",
      "drawTriangle", "drawFilledTriangle", "drawCircle", "drawFilledCircle",
      "drawBitmap", "putc" }

(* The call name(a) made on buffer buf, inverted flag inv and cursor       *)
(* (cx, cy): the buffer and the cursor column it leaves.                   *)
Primitive(name, a, buf, inv, cx, cy) ==
    CASE name = "drawPixel" ->
           [buf |-> drawPixel(buf, inv, a[1], a[2], a[3]).buf, currentX |-> cx]
      [] name = "drawLine" ->
           [buf |-> drawLine(buf, inv, a[1], a[2], a[3], a[4], a[5]),
            currentX |-> cx]
      [] name = "drawRectangle" ->
           [buf |-> drawRectangle(buf, inv, a[1], a[2], a[3], a[4], a[5]).buf,
            currentX |-> cx]
      [] name = "drawFilledRectangle" ->
           [buf |-> drawFilledRectangle(buf, inv, a[1], a[2], a[3], a[4],
                                        a[5]).buf,
            currentX |-> cx]
      [] name = "drawTriangle" ->
           [buf |-> drawTriangle(buf, inv, a[1], a[2], a[3], a[4], a[5], a[6],
                                 a[7]),
            currentX |-> cx]
      [] name = "drawFilledTriangle" ->
           [buf |-> drawFilledTriangle(buf, inv, a[1], a[2], a[3], a[4], a[5],
                                       a[6], a[7]),
            currentX |-> cx]
      [] name = "drawCircle" ->
           [buf |-> drawCircle(buf, inv, a[1], a[2], a[3], a[4]),
            currentX |-> cx]
      [] name = "drawFilledCircle" ->
           [buf |-> drawFilledCircle(buf, inv, a[1], a[2], a[3], a[4]),
            currentX |-> cx]
      [] name = "drawBitmap" ->
           [buf |-> drawBitmap(buf, inv, a[1], a[2], a[3], a[4], a[5], a[6]),
            currentX |-> cx]
      [] name = "putc" ->
           LET r == putc(buf, inv, cx, cy, a[1], a[2], a[3], a[4])
           IN  [buf |-> r.buf, currentX |-> r.currentX]

(* toggleInvert; name(a); toggleInvert on an initialised device leaves     *)
(* what the step from the unprimed to the primed state, name(a) alone,     *)
(* left.                                                                   *)
InversionCommutes ==
    \A t \in {toggleInvert(SSD1306_Buffer, inverted, initialized)} :
    \A m \in {Primitive(op', args', t.buf, t.inv, currentX, currentY)} :
    \A u \in {toggleInvert(m.buf, t.inv, initialized)} :
        /\ u.buf = SSD1306_Buffer'
        /\ u.inv = inverted'
        /\ m.currentX = currentX'
        /\ currentY' = currentY

(* C26: on an initialised device, for every buffer content and every       *)
(* primitive P that writes through drawPixel, toggleInvert; P;             *)
(* toggleInvert leaves the same framebuffer, cursor and inverted flag as   *)
(* P alone with the same arguments.                                        *)
C26_InversionCommutes ==
    [][(initialized = 1 /\ op' \in PixelPrimitives) => InversionCommutes]_vars

(* The last argument of every primitive but putc is the colour; putc has   *)
(* it third.                                                               *)
ColorArg(name, a) == IF name = "putc" THEN a[3] ELSE a[Len(a)]

(* What the code does: the sequences agree whenever the colour is one of   *)
(* the two colours.                                                        *)
C26_InversionCommutesValidColor ==
    [][(/\ initialized = 1
        /\ op' \in PixelPrimitives
        /\ ColorArg(op', args') \in Colors) => InversionCommutes]_vars

(* A primitive that drew on an initialised, inverted device. *)
C26_DrawnInverted ==
    /\ initialized = 1
    /\ inverted = 1
    /\ op \in PixelPrimitives
    /\ ColorArg(op, args) \in Colors
    /\ ret = "LCD_OK"
    /\ \E i, j \in 0..(BufferSize - 1) : SSD1306_Buffer[i] # SSD1306_Buffer[j]

(* ------------------------------------------------------------------ *)
(* The cursor                                                          *)
(* ------------------------------------------------------------------ *)

CursorInPanel == currentX < SSD1306_WIDTH /\ currentY < SSD1306_HEIGHT

(* What one call may do to the cursor. *)
CursorStep ==
    /\ op' = "init" => (currentX' = 0 /\ currentY' = 0)
    /\ op' = "gotoXY" =>
           IF args'[1] >= SSD1306_WIDTH \/ args'[2] >= SSD1306_HEIGHT
           THEN ret' = "INVALID_PARAMS" /\ UNCHANGED <<currentX, currentY>>
           ELSE currentX' = args'[1] /\ currentY' = args'[2]
    /\ op' = "putc" =>
           /\ currentY' = currentY
           /\ \/ currentX' = currentX
              \/ /\ ret' = "LCD_OK"
                 /\ currentX' = currentX + args'[2].fontWidth
                 /\ currentX' < SSD1306_WIDTH
    /\ op' = "puts" =>
           /\ currentY' = currentY
           /\ \E n \in 0..Len(args'[1]) :
                  /\ currentX' = currentX + n * args'[2].fontWidth
                  /\ currentX' < SSD1306_WIDTH
    /\ op' \notin {"init", "gotoXY", "putc", "puts"} =>
           UNCHANGED <<currentX, currentY>>

(* C27: in every reachable state the cursor lies inside the panel          *)
(* (currentX < width and currentY < height): init sets it to (0, 0),       *)
(* gotoXY rejects an out-of-panel target without changing it, putc (and    *)
(* puts, character by character) moves it only when the advanced position  *)
(* is still inside the panel, and no other operation changes it.           *)
C27_CursorInPanel == []CursorInPanel /\ [][CursorStep]_vars

(* putc advanced the cursor to the last column of the panel. *)
C27_Witness ==
    /\ op = "putc"
    /\ ret = "LCD_OK"
    /\ currentX = SSD1306_WIDTH - 1
    /\ currentY > 0

====
